---- MODULE Spec2Model ----
(***************************************************************************)
(* Control-safety core of the MonsterBorg robot:                           *)
(*   - EmergencyStop   (src/src/safety/emergency_stop.py)                  *)
(*   - ControlManager  (src/src/safety/control_manager.py)                 *)
(*   - MonsterWebServer socket handlers (src/src/web/server.py)            *)
(* Threads run the public operations step by step; a step is one region    *)
(* of code that no other thread can observe half-done (a lock-protected    *)
(* block, a single read, a single callback invocation).                    *)
(***************************************************************************)
EXTENDS Integers, Sequences, FiniteSets, TLC

\* ---------------------------------------------------------------- bounds
\* total number of operations (calls / socket events) started in one run
MaxCalls == 3
\* largest value of the clock read by time.time()
MaxTime == 1
\* total number of socket events handled in one run
MaxEvents == 2

\* ------------------------------------------------------------- constants
\* EmergencyStop.MAX_HISTORY
MAX_HISTORY == 100

Threads == {"t1", "t2", "t3"}
Users == {"alice", "bob", "carol"}
NoThread == "none"
NoUser == "None"
\* the actor id each thread calls trigger/reset with: the default "system"
\* and two connected users
CallerOf(t) == CASE t = "t1" -> "system" [] t = "t2" -> "alice" [] OTHER -> "bob"
DefaultReason == "Emergency stop"
ResetReason == "Emergency stop reset"

VARIABLES
    \* EmergencyStop fields
    stopped,          \* self._stopped (threading.Event)
    motor_stop,       \* self._motor_stop is configured
    on_state_change,  \* self._on_state_change is configured
    delivered,        \* <<is_stopped>> of the latest on_state_change call
    history,          \* self._history
    history_lock,     \* holder of self._history_lock
    state_lock,       \* holder of self._state_lock
    \* environment of EmergencyStop
    motorStopCalls,   \* number of invocations of the motor-stop callback
    stopTransitions,  \* number of not-stopped -> stopped transitions
    resetsPerformed,  \* number of reset calls that performed the transition
    \* ControlManager fields
    sessions,           \* self._sessions, in insertion order
    active_controller,  \* self._active_controller
    takeover_requester, \* self._takeover_requester
    \* environment of ControlManager
    notified,         \* invocations of the control-change callback by the last call
    lastCall,         \* the last ControlManager call and what it returned
    \* MonsterWebServer fields
    current_left,       \* self._current_left, in halves of full power
    current_right,      \* self._current_right
    speed_multiplier,   \* self._speed_multiplier, in halves
    last_command_time,  \* self._last_command_time
    command_keys,       \* the keys of self._last_command_time in dict (insertion) order
    wd,                 \* the watchdog thread: position and locals of _watchdog_loop
    \* SafetyMonitor fields
    sm_mode,              \* self._mode
    sm_status,            \* self._status
    last_signal_time,     \* self._last_signal_time
    terminated,           \* self._terminated (threading.Event)
    get_battery_voltage,  \* self._get_battery_voltage is configured
    get_fault_status,     \* self._get_fault_status is configured
    on_safety_issue,      \* self._on_safety_issue is configured
    \* threads of the SafetyMonitor
    mon,              \* the polling thread: its position and the locals of the cycle
    smc,              \* per caller of set_mode: its position and argument
    mode_set,         \* set_mode has been called
    sm_locks,         \* holder of self._mode_lock, self._status_lock, self._signal_lock
    lk,               \* per thread: the SafetyMonitor operation it runs and its position
    \* threads
    th,               \* per thread: the call it runs, its position and locals
    calls,            \* number of calls started
    now               \* the clock

vars == <<stopped, motor_stop, on_state_change, delivered, history, history_lock,
          state_lock, motorStopCalls, stopTransitions, resetsPerformed,
          sessions, active_controller, takeover_requester, notified, lastCall,
          current_left, current_right, speed_multiplier, last_command_time,
          command_keys, wd,
          sm_mode, sm_status, last_signal_time, terminated, get_battery_voltage,
          get_fault_status, on_safety_issue, mon, smc, mode_set, sm_locks, lk,
          th, calls, now>>

webVars == <<current_left, current_right, speed_multiplier, last_command_time,
             command_keys, wd>>

cmVars == <<sessions, active_controller, takeover_requester, notified, lastCall>>

lockVars == <<sm_locks, lk>>

smVars == <<sm_mode, sm_status, last_signal_time, terminated, get_battery_voltage,
            get_fault_status, on_safety_issue, mon, smc, mode_set, lockVars>>

esVars == <<stopped, motor_stop, on_state_change, delivered, history, history_lock,
            state_lock, motorStopCalls, stopTransitions, resetsPerformed>>

\* on_state_change has not been called yet
NoDelivery == <<>>

\* ------------------------------------------------------------ thread state
BadData == [ok |-> FALSE, a |-> 0, b |-> 0]

IdleThread ==
    [handler |-> "none", sid |-> NoUser, data |-> BadData, left |-> 0, right |-> 0,
     ret |-> "done",
     op |-> "idle", pc |-> "idle", by |-> NoUser, reason |-> "",
     performed_transition |-> FALSE, motor_callback |-> FALSE,
     state_callback |-> FALSE, result |-> "none", raised |-> FALSE,
     \* observations of this call
     examined |-> FALSE, motorInvoked |-> 0, stateInvoked |-> <<>>,
     appended |-> 0, histBusy |-> FALSE, motorThrew |-> FALSE,
     stateThrew |-> FALSE, resetSince |-> FALSE,
     \* arguments and locals of get_history and wait_for_reset
     limit |-> 0, events |-> <<>>, timeout |-> 0, start |-> 0, slept |-> FALSE]

Set(t, r) == th' = [th EXCEPT ![t] = r]

\* f"Reset by {reset_by}"
ResetMessage(reset_by) == <<"Reset by", reset_by>>

\* the event's timestamp is written once and read by no operation: left out
EmergencyStopEvent(by, reason) ==
    [triggered_by |-> by, reason |-> reason]

\* append, then keep the first MAX_HISTORY events
AppendTrimOldest(h, event) ==
    LET a == Append(h, event)
    IN  IF Len(a) > MAX_HISTORY THEN SubSeq(a, 1, MAX_HISTORY) ELSE a
\* self._history.append(event); trim to the last MAX_HISTORY events
AppendTrim(h, event) ==
    LET a == Append(h, event)
    IN  IF Len(a) > MAX_HISTORY
        THEN SubSeq(a, Len(a) - MAX_HISTORY + 1, Len(a))
        ELSE a

\* try: callback() except Exception: log -- the call goes on at `next`
GuardedPropagates(threw, next) == IF threw THEN "raise" ELSE next
Guarded(threw, next) == next

\* position after a step that may have left through an exception
Land(r, target) ==
    IF target = "raise"
    THEN [r EXCEPT !.pc = "done", !.raised = TRUE]
    ELSE [r EXCEPT !.pc = IF target = "return" THEN r.ret ELSE target]

\* ------------------------------------------------------- EmergencyStop.trigger
\* with self._state_lock: test-and-set of the latch
TestAndSetAlways(s) == [stopped |-> TRUE, performed |-> TRUE]
TestAndSet(s) == [stopped |-> TRUE, performed |-> ~s]

\* if motor_callback and performed_transition
MotorGuard(cb, performed) == cb /\ performed

\* if state_callback and performed_transition
StateGuard(cb, performed) == cb /\ performed

CallTrigger(t, by, reason) ==
    /\ th[t].pc = "idle"
    /\ calls < MaxCalls
    /\ calls' = calls + 1
    /\ Set(t, [IdleThread EXCEPT !.op = "trigger", !.pc = "t_lock",
                                 !.by = by, !.reason = reason])
    /\ UNCHANGED <<esVars, now, cmVars, webVars, smVars>>

TriggerLock(t) ==
    /\ th[t].pc = "t_lock"
    /\ state_lock = NoThread
    /\ state_lock' = t
    /\ Set(t, [th[t] EXCEPT !.pc = "t_crit"])
    /\ UNCHANGED <<stopped, motor_stop, on_state_change, delivered, history, history_lock,
                   motorStopCalls, stopTransitions, resetsPerformed, calls, now, cmVars, webVars, smVars>>

TriggerCritical(t) ==
    /\ th[t].pc = "t_crit"
    /\ state_lock = t
    /\ LET ts == TestAndSet(stopped)
       IN  /\ stopped' = ts.stopped
           /\ stopTransitions' = stopTransitions + (IF stopped' /\ ~stopped THEN 1 ELSE 0)
           /\ th' = [u \in Threads |->
                       IF u = t
                       THEN [th[t] EXCEPT
                               !.pc = "t_motor",
                               !.examined = stopped,
                               !.performed_transition = ts.performed,
                               !.motor_callback = ts.performed /\ motor_stop,
                               !.state_callback = ts.performed /\ on_state_change,
                               !.resetSince = FALSE]
                       ELSE th[u]]
    /\ state_lock' = NoThread
    /\ UNCHANGED <<motor_stop, on_state_change, delivered, history, history_lock,
                   motorStopCalls, resetsPerformed, calls, now, cmVars, webVars, smVars>>

TriggerMotor(t) ==
    /\ th[t].pc = "t_motor"
    /\ IF MotorGuard(th[t].motor_callback, th[t].performed_transition)
       THEN \E threw \in BOOLEAN :
              /\ motorStopCalls' = motorStopCalls + 1
              /\ Set(t, Land([th[t] EXCEPT !.motorInvoked = @ + 1,
                                           !.motorThrew = threw],
                             Guarded(threw, "t_hist")))
       ELSE /\ Set(t, [th[t] EXCEPT !.pc = "t_hist"])
            /\ UNCHANGED motorStopCalls
    /\ UNCHANGED <<stopped, motor_stop, on_state_change, delivered, history, history_lock,
                   state_lock, stopTransitions, resetsPerformed, calls, now, cmVars, webVars, smVars>>

\* threading.Lock.acquire that waits until the lock is free
AcquireBlocking(holder) == [returns |-> holder = NoThread, acquired |-> holder = NoThread]

\* the same call without blocking=False: acquire() returns only with the lock
AcquireWaiting(holder) == [returns |-> holder = NoThread, acquired |-> holder = NoThread]

\* self._history_lock.acquire(blocking=False): returns at once, with or
\* without the lock
AcquireNonBlocking(holder) == [returns |-> TRUE, acquired |-> holder = NoThread]

\* if self._history_lock.acquire(blocking=False)
TriggerHistTry(t) ==
    /\ th[t].pc = "t_hist"
    /\ AcquireNonBlocking(history_lock).returns
    /\ IF AcquireNonBlocking(history_lock).acquired
       THEN /\ history_lock' = t
            /\ Set(t, [th[t] EXCEPT !.pc = "t_append"])
       ELSE /\ Set(t, [th[t] EXCEPT !.pc = "t_state", !.histBusy = TRUE])
            /\ UNCHANGED history_lock
    /\ UNCHANGED <<stopped, motor_stop, on_state_change, delivered, history, state_lock,
                   motorStopCalls, stopTransitions, resetsPerformed, calls, now, cmVars, webVars, smVars>>

TriggerAppend(t) ==
    /\ th[t].pc = "t_append"
    /\ history_lock = t
    /\ history' = AppendTrim(history, EmergencyStopEvent(th[t].by, th[t].reason))
    /\ history_lock' = NoThread
    /\ Set(t, [th[t] EXCEPT !.pc = "t_state", !.appended = @ + 1])
    /\ UNCHANGED <<stopped, motor_stop, on_state_change, delivered, state_lock,
                   motorStopCalls, stopTransitions, resetsPerformed, calls, now, cmVars, webVars, smVars>>

TriggerState(t) ==
    /\ th[t].pc = "t_state"
    /\ IF StateGuard(th[t].state_callback, th[t].performed_transition)
       THEN \E threw \in BOOLEAN :
              Set(t, Land([th[t] EXCEPT
                             !.stateInvoked = Append(@, <<TRUE, th[t].reason>>),
                             !.stateThrew = threw],
                          Guarded(threw, "return")))
       ELSE Set(t, [th[t] EXCEPT !.pc = th[t].ret])
    /\ delivered' = IF StateGuard(th[t].state_callback, th[t].performed_transition)
                    THEN <<TRUE>> ELSE delivered
    /\ UNCHANGED <<stopped, motor_stop, on_state_change, history, history_lock,
                   state_lock, motorStopCalls, stopTransitions, resetsPerformed,
                   calls, now, cmVars, webVars, smVars>>

\* --------------------------------------------------------- EmergencyStop.reset
\* with self._state_lock: test-and-clear of the latch
TestAndClearAlways(s) == [stopped |-> FALSE, performed |-> TRUE]
TestAndClear(s) == [stopped |-> FALSE, performed |-> s]

\* if not performed_transition: return False
EarlyReturnNever(performed) == FALSE
EarlyReturn(performed) == ~performed

CallReset(t, by) ==
    /\ th[t].pc = "idle"
    /\ calls < MaxCalls
    /\ calls' = calls + 1
    /\ Set(t, [IdleThread EXCEPT !.op = "reset", !.pc = "r_lock", !.by = by])
    /\ UNCHANGED <<esVars, now, cmVars, webVars, smVars>>

ResetLock(t) ==
    /\ th[t].pc = "r_lock"
    /\ state_lock = NoThread
    /\ state_lock' = t
    /\ Set(t, [th[t] EXCEPT !.pc = "r_crit"])
    /\ UNCHANGED <<stopped, motor_stop, on_state_change, delivered, history, history_lock,
                   motorStopCalls, stopTransitions, resetsPerformed, calls, now, cmVars, webVars, smVars>>

\* the critical section, then `if not performed_transition: return False`
ResetCritical(t) ==
    /\ th[t].pc = "r_crit"
    /\ state_lock = t
    /\ LET tc == TestAndClear(stopped)
       IN  /\ stopped' = tc.stopped
           /\ resetsPerformed' = resetsPerformed + (IF tc.performed THEN 1 ELSE 0)
           /\ th' = [u \in Threads |->
                       IF u = t
                       THEN [th[t] EXCEPT
                               !.pc = IF EarlyReturn(tc.performed) THEN th[t].ret ELSE "r_hlock",
                               !.result = IF EarlyReturn(tc.performed) THEN "False" ELSE "none",
                               !.examined = stopped,
                               !.performed_transition = tc.performed,
                               !.state_callback = tc.performed /\ on_state_change]
                       ELSE IF stopped /\ ~stopped'
                            THEN [th[u] EXCEPT !.resetSince = TRUE]
                            ELSE th[u]]
    /\ state_lock' = NoThread
    /\ UNCHANGED <<motor_stop, on_state_change, delivered, history, history_lock,
                   motorStopCalls, stopTransitions, calls, now, cmVars, webVars, smVars>>

\* with self._history_lock: (blocking)
ResetHistLock(t) ==
    /\ th[t].pc = "r_hlock"
    /\ history_lock = NoThread
    /\ history_lock' = t
    /\ Set(t, [th[t] EXCEPT !.pc = "r_append"])
    /\ UNCHANGED <<stopped, motor_stop, on_state_change, delivered, history, state_lock,
                   motorStopCalls, stopTransitions, resetsPerformed, calls, now, cmVars, webVars, smVars>>

ResetAppend(t) ==
    /\ th[t].pc = "r_append"
    /\ history_lock = t
    /\ history' = AppendTrim(history, EmergencyStopEvent(th[t].by, ResetReason))
    /\ history_lock' = NoThread
    /\ Set(t, [th[t] EXCEPT !.pc = "r_state", !.appended = @ + 1])
    /\ UNCHANGED <<stopped, motor_stop, on_state_change, delivered, state_lock,
                   motorStopCalls, stopTransitions, resetsPerformed, calls, now, cmVars, webVars, smVars>>

\* if state_callback: ...; return True
ResetState(t) ==
    /\ th[t].pc = "r_state"
    /\ IF th[t].state_callback
       THEN \E threw \in BOOLEAN :
              Set(t, Land([th[t] EXCEPT
                             !.stateInvoked = Append(@, <<FALSE, ResetMessage(th[t].by)>>),
                             !.stateThrew = threw,
                             !.result = IF Guarded(threw, "return") = "raise"
                                        THEN "none" ELSE "True"],
                          Guarded(threw, "return")))
       ELSE Set(t, [th[t] EXCEPT !.pc = th[t].ret, !.result = "True"])
    /\ delivered' = IF th[t].state_callback THEN <<FALSE>> ELSE delivered
    /\ UNCHANGED <<stopped, motor_stop, on_state_change, history, history_lock,
                   state_lock, motorStopCalls, stopTransitions, resetsPerformed,
                   calls, now, cmVars, webVars, smVars>>

\* --------------------------------------------------- EmergencyStop.is_stopped
\* the locks is_stopped needs to be free: none
IsStoppedNeedsStateLock(sl, hl) == sl = NoThread
IsStoppedCanRun(sl, hl) == TRUE

CallIsStopped(t) ==
    /\ th[t].pc = "idle"
    /\ calls < MaxCalls
    /\ calls' = calls + 1
    /\ Set(t, [IdleThread EXCEPT !.op = "is_stopped", !.pc = "s_read"])
    /\ UNCHANGED <<esVars, now, cmVars, webVars, smVars>>

\* return self._stopped.is_set()
IsStoppedRead(t) ==
    /\ th[t].pc = "s_read"
    /\ IsStoppedCanRun(state_lock, history_lock)
    /\ Set(t, [th[t] EXCEPT !.pc = "done",
                            !.result = IF stopped THEN "True" ELSE "False"])
    /\ UNCHANGED <<esVars, calls, now, cmVars, webVars, smVars>>

\* -------------------------------------------------- EmergencyStop.get_history
Min2(a, b) == IF a < b THEN a ELSE b

\* the same events with the newest first
SliceLastNewestFirst(h, limit) ==
    LET k == IF limit > 0 THEN Min2(limit, Len(h)) ELSE Len(h) - Min2(0 - limit, Len(h))
    IN  [i \in 1..k |-> h[Len(h) - i + 1]]
\* h[-limit:] as Python evaluates it: -0 is 0, so limit 0 selects from the
\* start; a negative limit -k selects from position k
SliceLast(h, limit) ==
    IF limit > 0 THEN SubSeq(h, Len(h) - Min2(limit, Len(h)) + 1, Len(h))
    ELSE SubSeq(h, Min2(0 - limit, Len(h)) + 1, Len(h))

CallGetHistory(t, limit) ==
    /\ th[t].pc = "idle"
    /\ calls < MaxCalls
    /\ calls' = calls + 1
    /\ Set(t, [IdleThread EXCEPT !.op = "get_history", !.pc = "h_lock", !.limit = limit])
    /\ UNCHANGED <<esVars, now, cmVars, webVars, smVars>>

\* with self._history_lock: return self._history[-limit:]
GetHistory(t) ==
    /\ \/ /\ th[t].pc = "h_lock"
          /\ AcquireBlocking(history_lock).returns
          /\ history_lock' = t
          /\ Set(t, [th[t] EXCEPT !.pc = "h_read"])
       \/ /\ th[t].pc = "h_read"
          /\ history_lock = t
          /\ history_lock' = NoThread
          /\ Set(t, [th[t] EXCEPT !.pc = "done",
                                  !.events = SliceLast(history, th[t].limit)])
    /\ UNCHANGED <<stopped, motor_stop, on_state_change, delivered, history, state_lock,
                   motorStopCalls, stopTransitions, resetsPerformed, calls, now, cmVars, webVars, smVars>>

\* ----------------------------------------------- EmergencyStop.wait_for_reset
\* timeout=None
NoTimeout == 0 - 1

\* if timeout == 0
NonBlockingNever(timeout) == FALSE
NonBlocking(timeout) == timeout = 0

CallWaitForReset(t, timeout) ==
    /\ th[t].pc = "idle"
    /\ calls < MaxCalls
    /\ calls' = calls + 1
    /\ Set(t, [IdleThread EXCEPT !.op = "wait_for_reset", !.pc = "w_first",
                                 !.timeout = timeout])
    /\ UNCHANGED <<esVars, now, cmVars, webVars, smVars>>

WaitForReset(t) ==
    /\ \/ \* if not self._stopped.is_set(): return True
          /\ th[t].pc = "w_first"
          /\ Set(t, IF ~stopped
                    THEN [th[t] EXCEPT !.pc = "done", !.result = "True"]
                    ELSE IF NonBlocking(th[t].timeout)
                    THEN [th[t] EXCEPT !.pc = "w_zero"]
                    ELSE [th[t] EXCEPT !.pc = "w_poll", !.start = now])
       \/ \* return not self._stopped.is_set()
          /\ th[t].pc = "w_zero"
          /\ Set(t, [th[t] EXCEPT !.pc = "done",
                                  !.result = IF stopped THEN "False" ELSE "True"])
       \/ \* while self._stopped.is_set(): if ... > timeout: return False
          /\ th[t].pc = "w_poll"
          /\ Set(t, IF ~stopped
                    THEN [th[t] EXCEPT !.pc = "done", !.result = "True"]
                    ELSE IF th[t].timeout # NoTimeout /\ (now - th[t].start) > th[t].timeout
                    THEN [th[t] EXCEPT !.pc = "done", !.result = "False"]
                    ELSE [th[t] EXCEPT !.pc = "w_sleep", !.slept = TRUE])
       \/ \* time.sleep(0.01)
          /\ th[t].pc = "w_sleep"
          /\ Set(t, [th[t] EXCEPT !.pc = "w_poll"])
    /\ UNCHANGED <<esVars, calls, now, cmVars, webVars, smVars>>

\* the call (or the socket event's handler) has returned
Return(t) ==
    /\ th[t].pc = "done"
    /\ Set(t, IdleThread)
    /\ UNCHANGED <<esVars, calls, now, cmVars, webVars, smVars>>


\* ============================================================ ControlManager
CONTROLLER == "controller"
OBSERVER == "observer"
DISCONNECTED == "disconnected"

\* connected_at is written once and read by no operation: left out
UserSession(u, role, t) == [user_id |-> u, role |-> role, last_activity |-> t]

SessionIds(s) == {s[i].user_id : i \in DOMAIN s}
HasSession(s, u) == u \in SessionIds(s)
IndexOf(s, u) == CHOOSE i \in DOMAIN s : s[i].user_id = u
SetRole(s, u, role) == [s EXCEPT ![IndexOf(s, u)].role = role]
Touch(s, u, t) == [s EXCEPT ![IndexOf(s, u)].last_activity = t]
\* del self._sessions[user_id]
Remove(s, u) ==
    LET k == IndexOf(s, u)
    IN  [i \in 1..(Len(s) - 1) |-> IF i < k THEN s[i] ELSE s[i + 1]]

\* get_user_role
GetUserRole(s, u) == IF HasSession(s, u) THEN s[IndexOf(s, u)].role ELSE DISCONNECTED

\* observer_count
ObserverCount(s) == Cardinality({i \in DOMAIN s : s[i].role = OBSERVER})

Outcome(s, ac, tr, n, r) ==
    [sessions |-> s, active_controller |-> ac, takeover_requester |-> tr,
     notified |-> n, result |-> r]

\* request_control(user_id) at time t
RequestControlOp(s, ac, tr, u, t) ==
    LET s1 == IF HasSession(s, u)
              THEN Touch(s, u, t)
              ELSE Append(s, UserSession(u, DISCONNECTED, t))
    IN  IF HasSession(s, u) /\ GetUserRole(s, u) = CONTROLLER
        THEN Outcome(s1, ac, tr, <<>>, TRUE)
        ELSE IF ac = NoUser
             THEN Outcome(SetRole(s1, u, CONTROLLER), u, tr, << <<u, CONTROLLER>> >>, TRUE)
             ELSE Outcome(SetRole(s1, u, OBSERVER), ac, tr, << <<u, OBSERVER>> >>, FALSE)

\* request_takeover that grants the takeover at once
RequestTakeoverGrants(s, ac, tr, u) ==
    IF u = ac THEN Outcome(s, ac, tr, <<>>, FALSE)
    ELSE IF ~HasSession(s, u) THEN Outcome(s, ac, tr, <<>>, FALSE)
    ELSE IF tr # NoUser THEN Outcome(s, ac, tr, <<>>, FALSE)
    ELSE Outcome(SetRole(SetRole(s, u, CONTROLLER), ac, OBSERVER), u, NoUser,
                 << <<u, CONTROLLER>>, <<ac, OBSERVER>> >>, TRUE)
\* request_takeover without the pending check: a second request replaces the first
RequestTakeoverReplaces(s, ac, tr, u) ==
    IF u = ac THEN Outcome(s, ac, tr, <<>>, FALSE)
    ELSE IF ~HasSession(s, u) THEN Outcome(s, ac, tr, <<>>, FALSE)
    ELSE Outcome(s, ac, u, <<>>, TRUE)

\* request_takeover(user_id)
RequestTakeoverOp(s, ac, tr, u) ==
    IF u = ac THEN Outcome(s, ac, tr, <<>>, FALSE)
    ELSE IF ~HasSession(s, u) THEN Outcome(s, ac, tr, <<>>, FALSE)
    ELSE IF tr # NoUser THEN Outcome(s, ac, tr, <<>>, FALSE)
    ELSE Outcome(s, ac, u, <<>>, TRUE)

\* cancel_takeover without the authorisation check: any caller cancels
CancelTakeoverAnyone(s, ac, tr, u) ==
    IF tr = NoUser THEN Outcome(s, ac, tr, <<>>, FALSE)
    ELSE Outcome(s, ac, NoUser, <<>>, TRUE)
\* cancel_takeover(user_id)
CancelTakeoverOp(s, ac, tr, u) ==
    IF tr = NoUser THEN Outcome(s, ac, tr, <<>>, FALSE)
    ELSE IF u # tr /\ u # ac THEN Outcome(s, ac, tr, <<>>, FALSE)
    ELSE Outcome(s, ac, NoUser, <<>>, TRUE)

\* has_pending_takeover
HasPendingTakeover(tr) == tr # NoUser

\* approve_takeover(approver_id)
ApproveTakeoverNoDemote(s, ac, tr, u) ==
    IF u # ac \/ tr = NoUser THEN Outcome(s, ac, tr, <<>>, FALSE)
    ELSE IF ~HasSession(s, tr) THEN Outcome(s, ac, NoUser, <<>>, FALSE)
    ELSE Outcome(SetRole(s, tr, CONTROLLER), tr, NoUser,
                 << <<tr, CONTROLLER>>, <<ac, OBSERVER>> >>, TRUE)

\* approve_takeover that drops the pending request when it rejects the approver
ApproveTakeoverClearsOnReject(s, ac, tr, u) ==
    IF u # ac THEN Outcome(s, ac, NoUser, <<>>, FALSE)
    ELSE IF tr = NoUser THEN Outcome(s, ac, tr, <<>>, FALSE)
    ELSE IF ~HasSession(s, tr) THEN Outcome(s, ac, NoUser, <<>>, FALSE)
    ELSE Outcome(SetRole(SetRole(s, tr, CONTROLLER), ac, OBSERVER), tr, NoUser,
                 << <<tr, CONTROLLER>>, <<ac, OBSERVER>> >>, TRUE)

ApproveTakeoverOp(s, ac, tr, u) ==
    IF u # ac THEN Outcome(s, ac, tr, <<>>, FALSE)
    ELSE IF tr = NoUser THEN Outcome(s, ac, tr, <<>>, FALSE)
    ELSE IF ~HasSession(s, tr) THEN Outcome(s, ac, NoUser, <<>>, FALSE)
    ELSE LET new_controller == tr
             old_controller == ac
             s1 == SetRole(s, new_controller, CONTROLLER)
             s2 == SetRole(s1, old_controller, OBSERVER)
         IN  Outcome(s2, new_controller, NoUser,
                     << <<new_controller, CONTROLLER>>, <<old_controller, OBSERVER>> >>,
                     TRUE)

\* promotion of the Observer inserted last instead of first
LastObserver(s) ==
    IF \E i \in DOMAIN s : s[i].role = OBSERVER
    THEN CHOOSE i \in DOMAIN s :
           /\ s[i].role = OBSERVER
           /\ \A j \in DOMAIN s : s[j].role = OBSERVER => i >= j
    ELSE 0
\* for session in self._sessions.values(): if session.role == OBSERVER: ... break
FirstObserver(s) ==
    IF \E i \in DOMAIN s : s[i].role = OBSERVER
    THEN CHOOSE i \in DOMAIN s :
           /\ s[i].role = OBSERVER
           /\ \A j \in DOMAIN s : s[j].role = OBSERVER => i <= j
    ELSE 0

\* disconnect that promotes nobody when the Controller leaves
DisconnectNoPromotion(s, ac, tr, u) ==
    IF ~HasSession(s, u) THEN Outcome(s, ac, tr, <<>>, "None")
    ELSE LET tr1 == IF tr = u THEN NoUser ELSE tr
             was_controller == (u = ac)
             s1 == Remove(s, u)
         IN  IF ~was_controller
             THEN Outcome(s1, ac, tr1, << <<u, DISCONNECTED>> >>, "None")
             ELSE Outcome(s1, NoUser, tr1, << <<u, DISCONNECTED>> >>, "None")
\* disconnect that keeps the leaver's pending takeover request
DisconnectKeepsRequest(s, ac, tr, u) ==
    IF ~HasSession(s, u) THEN Outcome(s, ac, tr, <<>>, "None")
    ELSE LET was_controller == (u = ac)
             s1 == Remove(s, u)
             k == FirstObserver(s1)
         IN  IF ~was_controller
             THEN Outcome(s1, ac, tr, << <<u, DISCONNECTED>> >>, "None")
             ELSE IF k = 0
                  THEN Outcome(s1, NoUser, tr, << <<u, DISCONNECTED>> >>, "None")
                  ELSE Outcome([s1 EXCEPT ![k].role = CONTROLLER], s1[k].user_id, tr,
                               << <<u, DISCONNECTED>>, <<s1[k].user_id, CONTROLLER>> >>,
                               "None")
\* disconnect(user_id)
DisconnectOp(s, ac, tr, u) ==
    IF ~HasSession(s, u) THEN Outcome(s, ac, tr, <<>>, "None")
    ELSE LET tr1 == IF tr = u THEN NoUser ELSE tr
             was_controller == (u = ac)
             s1 == Remove(s, u)
             k == FirstObserver(s1)
         IN  IF ~was_controller
             THEN Outcome(s1, ac, tr1, << <<u, DISCONNECTED>> >>, "None")
             ELSE IF k = 0
                  THEN Outcome(s1, NoUser, tr1, << <<u, DISCONNECTED>> >>, "None")
                  ELSE Outcome([s1 EXCEPT ![k].role = CONTROLLER], s1[k].user_id, tr1,
                               << <<u, DISCONNECTED>>, <<s1[k].user_id, CONTROLLER>> >>,
                               "None")

\* update_activity(user_id) at time t
UpdateActivityOp(s, ac, tr, u, t) ==
    IF HasSession(s, u)
    THEN Outcome(Touch(s, u, t), ac, tr, <<>>, "None")
    ELSE Outcome(s, ac, tr, <<>>, "None")

\* observation: the pending requester disconnected and no takeover has been
\* requested since
RequesterLeft(op, u, out) ==
    IF op = "disconnect" /\ u = takeover_requester /\ HasSession(sessions, u)
    THEN TRUE
    ELSE IF op = "request_takeover" /\ out.result = TRUE
         THEN FALSE
         ELSE lastCall.requester_left

\* one call, made under self._lock: the registry moves to the call's outcome
Apply(op, u, out) ==
    /\ sessions' = out.sessions
    /\ active_controller' = out.active_controller
    /\ takeover_requester' = out.takeover_requester
    /\ notified' = out.notified
    /\ lastCall' = [op |-> op, user |-> u, result |-> out.result,
                    flip |-> ~lastCall.flip,
                    requester_left |-> RequesterLeft(op, u, out)]

request_control(u) ==
    Apply("request_control", u,
          RequestControlOp(sessions, active_controller, takeover_requester, u, now))
request_takeover(u) ==
    Apply("request_takeover", u,
          RequestTakeoverOp(sessions, active_controller, takeover_requester, u))
cancel_takeover(u) ==
    Apply("cancel_takeover", u,
          CancelTakeoverOp(sessions, active_controller, takeover_requester, u))
approve_takeover(u) ==
    Apply("approve_takeover", u,
          ApproveTakeoverOp(sessions, active_controller, takeover_requester, u))
disconnect(u) ==
    Apply("disconnect", u,
          DisconnectOp(sessions, active_controller, takeover_requester, u))
update_activity(u) ==
    Apply("update_activity", u,
          UpdateActivityOp(sessions, active_controller, takeover_requester, u, now))

InitCM ==
    /\ sessions = <<>>
    /\ active_controller = NoUser
    /\ takeover_requester = NoUser
    /\ notified = <<>>
    /\ lastCall = [op |-> "none", user |-> NoUser, result |-> "None", flip |-> FALSE,
                   requester_left |-> FALSE]

\* ========================================================== MonsterWebServer
\* Motor powers and the speed multiplier are counted in halves: 2 is 1.0.
\* The inputs below keep every product a whole number of halves.
\* max(-1.0, min(1.0, x))
Clamp(x) == IF x < -2 THEN -2 ELSE IF x > 2 THEN 2 ELSE x

Abs(x) == IF x < 0 THEN -x ELSE x
Max2(a, b) == IF a >= b THEN a ELSE b

\* _set_motors(left, right), under self._motor_lock, with max_power = 1.0:
\* clamp, record as current output and pass to the motor callback
SetMotorsOp(left, right) == [left |-> Clamp(left), right |-> Clamp(right)]

SetMotors(left, right) ==
    /\ current_left' = SetMotorsOp(left, right).left
    /\ current_right' = SetMotorsOp(left, right).right

\* the two numbers of an event's payload; float() fails on BadData
Data(a, b) == [ok |-> TRUE, a |-> a, b |-> b]
\* 'left' and 'right' of a drive event
DriveData == {Data(-4, 1), BadData}
\* 'x' and 'y' of a joystick event
JoystickData == {Data(2, 2), BadData}
\* 'speed' of a set_speed event
SpeedData == {Data(0, 0), Data(4, 0), BadData}

\* left = float(data['left']) * speed; right likewise
DriveScaleOp(data, speed) ==
    [left |-> (data.a * speed) \div 2, right |-> (data.b * speed) \div 2]

\* joystick to differential drive, normalised, times speed
JoystickScaleOp(data, speed) ==
    LET x == data.a
        y == data.b
        l == y + x
        r == y - x
        max_val == Max2(Max2(Abs(l), Abs(r)), 2)
    IN  [left |-> (((l * 2) \div max_val) * speed) \div 2,
         right |-> (((r * 2) \div max_val) * speed) \div 2]

\* max(0.0, min(1.0, speed))
ClampSpeed(x) == IF x < 0 THEN 0 ELSE IF x > 2 THEN 2 ELSE x

\* a socket event arrives and its handler starts on a free thread
StartEvent(t, sid, handler, data, entry) ==
    /\ th[t].pc = "idle"
    /\ calls < MaxEvents
    /\ calls' = calls + 1
    /\ Set(t, [IdleThread EXCEPT !.handler = handler, !.sid = sid, !.data = data,
                                 !.pc = entry])
    /\ UNCHANGED <<esVars, cmVars, webVars, now, smVars>>

EventConnect(t, sid) == StartEvent(t, sid, "connect", BadData, "c_req")
EventDisconnect(t, sid) == StartEvent(t, sid, "disconnect", BadData, "x_motors")
EventDrive(t, sid, data) == StartEvent(t, sid, "drive", data, "d_role")
EventJoystick(t, sid, data) == StartEvent(t, sid, "joystick", data, "j_role")
EventStop(t, sid) == StartEvent(t, sid, "stop", BadData, "s_set")
EventEmergencyStop(t, sid) == StartEvent(t, sid, "emergency_stop", BadData, "es_call")
EventEmergencyReset(t, sid) == StartEvent(t, sid, "emergency_reset", BadData, "er_role")
EventSetSpeed(t, data) == StartEvent(t, NoUser, "set_speed", data, "sp_set")

\* handle_connect: granted = control_manager.request_control(sid)
HandleConnect(t) ==
    /\ th[t].pc = "c_req"
    /\ request_control(th[t].sid)
    /\ Set(t, [th[t] EXCEPT !.pc = "done"])
    /\ UNCHANGED <<esVars, webVars, calls, now, smVars>>

\* handle_disconnect: self._set_motors(0.0, 0.0)
DisconnectMotors(t) ==
    /\ th[t].pc = "x_motors"
    /\ SetMotors(0, 0)
    /\ Set(t, [th[t] EXCEPT !.pc = "x_cm"])
    /\ UNCHANGED <<esVars, cmVars, speed_multiplier, last_command_time, command_keys, wd,
                   calls, now, smVars>>

\* handle_disconnect: control_manager.disconnect(sid)
DisconnectCM(t) ==
    /\ th[t].pc = "x_cm"
    /\ disconnect(th[t].sid)
    /\ Set(t, [th[t] EXCEPT !.pc = "x_watch"])
    /\ UNCHANGED <<esVars, webVars, calls, now, smVars>>

\* handle_disconnect: del self._last_command_time[sid]
DisconnectWatch(t) ==
    /\ th[t].pc = "x_watch"
    /\ last_command_time' =
         [u \in (DOMAIN last_command_time) \ {th[t].sid} |-> last_command_time[u]]
    /\ command_keys' = SelectSeq(command_keys, LAMBDA u : u # th[t].sid)
    /\ Set(t, [th[t] EXCEPT !.pc = "done"])
    /\ UNCHANGED <<esVars, cmVars, current_left, current_right, speed_multiplier, wd,
                   calls, now, smVars>>

\* role = control_manager.get_user_role(sid); if role.value != 'controller': return
RoleStep(t, here, next) ==
    /\ th[t].pc = here
    /\ Set(t, [th[t] EXCEPT !.pc = IF GetUserRole(sessions, th[t].sid) # CONTROLLER
                                   THEN "done" ELSE next])
    /\ UNCHANGED <<esVars, cmVars, webVars, calls, now, smVars>>

\* if self._emergency_stop.is_stopped: return
EstopStep(t, here, next) ==
    /\ th[t].pc = here
    /\ Set(t, [th[t] EXCEPT !.pc = IF stopped THEN "done" ELSE next])
    /\ UNCHANGED <<esVars, cmVars, webVars, calls, now, smVars>>

\* self._set_motors(left, right)
SetStep(t, here, next) ==
    /\ th[t].pc = here
    /\ SetMotors(th[t].left, th[t].right)
    /\ Set(t, [th[t] EXCEPT !.pc = next])
    /\ UNCHANGED <<esVars, cmVars, speed_multiplier, last_command_time, command_keys, wd,
                   calls, now, smVars>>

\* self._last_command_time[sid] = time.time()
WatchStep(t, here) ==
    /\ th[t].pc = here
    /\ last_command_time' =
         [u \in (DOMAIN last_command_time) \cup {th[t].sid} |->
            IF u = th[t].sid THEN now ELSE last_command_time[u]]
    /\ command_keys' = IF th[t].sid \in DOMAIN last_command_time
                       THEN command_keys ELSE Append(command_keys, th[t].sid)
    /\ Set(t, [th[t] EXCEPT !.pc = "done"])
    /\ UNCHANGED <<esVars, cmVars, current_left, current_right, speed_multiplier, wd,
                   calls, now, smVars>>

\* handle_drive
DriveRole(t) == RoleStep(t, "d_role", "d_estop")
DriveEstop(t) == EstopStep(t, "d_estop", "d_scale")
DriveScale(t) ==
    /\ th[t].pc = "d_scale"
    /\ IF th[t].data = BadData
       THEN Set(t, [th[t] EXCEPT !.pc = "done"])
       ELSE Set(t, [th[t] EXCEPT !.pc = "d_set",
                                 !.left = DriveScaleOp(th[t].data, speed_multiplier).left,
                                 !.right = DriveScaleOp(th[t].data, speed_multiplier).right])
    /\ UNCHANGED <<esVars, cmVars, webVars, calls, now, smVars>>
DriveSet(t) == SetStep(t, "d_set", "d_watch")
DriveWatch(t) == WatchStep(t, "d_watch")

\* handle_joystick
JoystickRole(t) == RoleStep(t, "j_role", "j_estop")
JoystickEstop(t) == EstopStep(t, "j_estop", "j_scale")
JoystickScale(t) ==
    /\ th[t].pc = "j_scale"
    /\ IF th[t].data = BadData
       THEN Set(t, [th[t] EXCEPT !.pc = "done"])
       ELSE Set(t, [th[t] EXCEPT !.pc = "j_set",
                                 !.left = JoystickScaleOp(th[t].data, speed_multiplier).left,
                                 !.right = JoystickScaleOp(th[t].data, speed_multiplier).right])
    /\ UNCHANGED <<esVars, cmVars, webVars, calls, now, smVars>>
JoystickSet(t) == SetStep(t, "j_set", "j_watch")
JoystickWatch(t) == WatchStep(t, "j_watch")

\* handle_stop
HandleStop(t) == SetStep(t, "s_set", "done")

\* handle_emergency_stop: self._emergency_stop.trigger(triggered_by=sid, reason=reason)
EmergencyStopRoleChecked(t) ==
    /\ th[t].pc = "es_call"
    /\ IF GetUserRole(sessions, th[t].sid) # CONTROLLER
       THEN Set(t, [th[t] EXCEPT !.pc = "done"])
       ELSE Set(t, [th[t] EXCEPT !.op = "trigger", !.pc = "t_lock", !.ret = "es_set",
                                 !.by = th[t].sid, !.reason = "User triggered"])
    /\ UNCHANGED <<esVars, cmVars, webVars, calls, now, smVars>>
EmergencyStopCall(t) ==
    /\ th[t].pc = "es_call"
    /\ Set(t, [th[t] EXCEPT !.op = "trigger", !.pc = "t_lock", !.ret = "es_set",
                            !.by = th[t].sid, !.reason = "User triggered"])
    /\ UNCHANGED <<esVars, cmVars, webVars, calls, now, smVars>>

\* handle_emergency_stop: self._set_motors(0.0, 0.0), then the broadcast
EmergencyStopSet(t) == SetStep(t, "es_set", "done")

\* handle_emergency_reset: only the controller may reset
EmergencyResetRole(t) == RoleStep(t, "er_role", "er_call")
EmergencyResetCall(t) ==
    /\ th[t].pc = "er_call"
    /\ Set(t, [th[t] EXCEPT !.op = "reset", !.pc = "r_lock", !.ret = "er_emit",
                            !.by = th[t].sid])
    /\ UNCHANGED <<esVars, cmVars, webVars, calls, now, smVars>>
\* emit 'emergency_stop_cleared' or the error
EmergencyResetEmit(t) ==
    /\ th[t].pc = "er_emit"
    /\ Set(t, [th[t] EXCEPT !.pc = "done"])
    /\ UNCHANGED <<esVars, cmVars, webVars, calls, now, smVars>>

\* handle_set_speed
HandleSetSpeed(t) ==
    /\ th[t].pc = "sp_set"
    /\ speed_multiplier' = IF th[t].data = BadData THEN speed_multiplier
                           ELSE ClampSpeed(th[t].data.a)
    /\ Set(t, [th[t] EXCEPT !.pc = "done"])
    /\ UNCHANGED <<esVars, cmVars, current_left, current_right, last_command_time,
                   command_keys, wd,
                   calls, now, smVars>>

\* -------------------------------------------------- the takeover handlers
\* the public methods and properties the ControlManager class defines
ControlManagerMethods ==
    {"active_controller", "observer_count", "request_control", "request_takeover",
     "cancel_takeover", "has_pending_takeover", "approve_takeover", "disconnect",
     "update_activity", "get_user_role"}

\* self._control_manager.<name>: a name the class does not define raises
\* AttributeError
AttributeLookup(name) == IF name \in ControlManagerMethods THEN "found" ELSE "raise"

EventRequestTakeover(t, sid) == StartEvent(t, sid, "request_takeover", BadData, "rt_call")
EventApproveTakeover(t, sid) == StartEvent(t, sid, "approve_takeover", BadData, "at_call")
EventDenyTakeover(t, sid) == StartEvent(t, sid, "deny_takeover", BadData, "dt_call")

\* handle_request_takeover: request_takeover(sid), then emit
HandleRequestTakeover(t) ==
    /\ th[t].pc = "rt_call"
    /\ request_takeover(th[t].sid)
    /\ Set(t, [th[t] EXCEPT !.pc = "done",
                            !.result = IF lastCall'.result THEN "takeover_pending"
                                       ELSE "error"])
    /\ UNCHANGED <<esVars, webVars, calls, now, smVars>>

\* handle_approve_takeover: approve_takeover(sid), then emit
HandleApproveTakeover(t) ==
    /\ th[t].pc = "at_call"
    /\ approve_takeover(th[t].sid)
    /\ Set(t, [th[t] EXCEPT !.pc = "done",
                            !.result = IF lastCall'.result THEN "control_changed"
                                       ELSE "error"])
    /\ UNCHANGED <<esVars, webVars, calls, now, smVars>>

\* handle_deny_takeover: requester = get_pending_requester(); then
\* if cancel_takeover(sid): emit 'takeover_denied'
HandleDenyTakeover(t) ==
    /\ th[t].pc = "dt_call"
    /\ IF AttributeLookup("get_pending_requester") = "raise"
       THEN /\ Set(t, [th[t] EXCEPT !.pc = "done", !.raised = TRUE])
            /\ UNCHANGED cmVars
       ELSE /\ cancel_takeover(th[t].sid)
            /\ Set(t, [th[t] EXCEPT !.pc = "done",
                                    !.result = IF lastCall'.result THEN "takeover_denied"
                                               ELSE "none"])
    /\ UNCHANGED <<esVars, webVars, calls, now, smVars>>

\* ------------------------------------------------------- _watchdog_loop
\* self._watchdog_timeout = 1.0
watchdog_timeout == 1

\* if now - last_time > self._watchdog_timeout
TimedOut(t, last_time) == t - last_time > watchdog_timeout

\* if timed_out and (self._current_left != 0.0 or self._current_right != 0.0)
WatchdogStops(timed_out, left, right) ==
    timed_out # <<>> /\ (left # 0 \/ right # 0)


\* the watchdog thread between two passes
IdleWatchdog ==
    [pc |-> "sleep", now |-> 0, timed_out |-> <<>>, i |-> 1,
     \* observations of the last pass
     ran |-> FALSE, motors_on |-> FALSE, sets |-> 0, raised |-> FALSE]

\* now = time.time(); timed_out = [sid for sid, last_time in
\* list(self._last_command_time.items()) if now - last_time > timeout]
WatchdogScan ==
    /\ wd.pc = "sleep"
    /\ wd' = [IdleWatchdog EXCEPT
                !.pc = "decide", !.now = now, !.ran = TRUE,
                !.timed_out = SelectSeq(command_keys,
                                LAMBDA sid : TimedOut(now, last_command_time[sid]))]
    /\ UNCHANGED <<esVars, cmVars, current_left, current_right, speed_multiplier,
                   last_command_time, command_keys, th, calls, now, smVars>>

\* the test before self._set_motors(0.0, 0.0).  The two outputs are read one
\* after the other; with outputs that are both zero or both non-zero every
\* such pair of reads sees what one read before or after a _set_motors sees.
WatchdogDecide ==
    /\ wd.pc = "decide"
    /\ LET stop == WatchdogStops(wd.timed_out, current_left, current_right)
       IN  wd' = [wd EXCEPT !.pc = IF stop THEN "set" ELSE "evict", !.motors_on = stop]
    /\ UNCHANGED <<esVars, cmVars, current_left, current_right, speed_multiplier,
                   last_command_time, command_keys, th, calls, now, smVars>>

\* self._set_motors(0.0, 0.0)
WatchdogSet ==
    /\ wd.pc = "set"
    /\ SetMotors(0, 0)
    /\ wd' = [wd EXCEPT !.pc = "evict", !.sets = @ + 1]
    /\ UNCHANGED <<esVars, cmVars, speed_multiplier, last_command_time, command_keys,
                   th, calls, now, smVars>>

\* for sid in timed_out: del self._last_command_time[sid]
\* a key that is no longer there raises KeyError, which ends the pass in the
\* except clause
WatchdogEvict ==
    /\ wd.pc = "evict"
    /\ IF wd.i > Len(wd.timed_out)
       THEN /\ wd' = [wd EXCEPT !.pc = "sleep"]
            /\ UNCHANGED <<last_command_time, command_keys>>
       ELSE LET sid == wd.timed_out[wd.i]
            IN  IF sid \in DOMAIN last_command_time
                THEN /\ last_command_time' =
                          [u \in (DOMAIN last_command_time) \ {sid} |-> last_command_time[u]]
                     /\ command_keys' = SelectSeq(command_keys, LAMBDA u : u # sid)
                     /\ wd' = [wd EXCEPT !.i = @ + 1]
                ELSE /\ wd' = [wd EXCEPT !.pc = "sleep", !.raised = TRUE]
                     /\ UNCHANGED <<last_command_time, command_keys>>
    /\ UNCHANGED <<esVars, cmVars, current_left, current_right, speed_multiplier,
                   th, calls, now, smVars>>

\* one step of the watchdog thread
WatchdogStep == WatchdogScan \/ WatchdogDecide \/ WatchdogSet \/ WatchdogEvict

\* A second passes.  The watchdog reads only the difference between
\* time.time() and a stamp, so the stamps move back instead of the clock
\* moving on, and no further than just past the timeout.
WatchTick ==
    /\ last_command_time' =
         [u \in DOMAIN last_command_time |->
            Max2(last_command_time[u] - 1, now - watchdog_timeout - 1)]
    /\ UNCHANGED <<esVars, cmVars, current_left, current_right, speed_multiplier,
                   command_keys, wd, th, calls, now, smVars>>
InitServer ==
    /\ current_left = 0
    /\ current_right = 0
    /\ speed_multiplier = 2
    /\ last_command_time = [u \in {} |-> 0]
    /\ command_keys = <<>>
    /\ wd = IdleWatchdog


\* ============================================================= SafetyMonitor
\* Voltages are counted in tenths of a volt and the clock in seconds.
MANUAL == "manual"
AUTONOMOUS == "autonomous"
STOPPED == "stopped"
OperationMode == {MANUAL, AUTONOMOUS, STOPPED}

\* battery_stop_voltage: float = 10.5
battery_stop_voltage == 105
\* self._signal_timeout = 1.0
signal_timeout == 1

FaultMessage == "Motor driver fault detected"
BatteryCritical == "Battery critical"
SignalLost == "Signal lost"

\* last_check is written by the cycle and read by no operation: left out
SafetyStatus(mode, v, bok, fault, msg, sok) ==
    [mode |-> mode, battery_voltage |-> v, battery_ok |-> bok,
     fault_detected |-> fault, fault_message |-> msg, signal_ok |-> sok]

\* what a probe does when it is called: it returns a value or raises
Returns(v) == [raises |-> FALSE, value |-> v]
Raises == [raises |-> TRUE, value |-> 0]
\* a negative reading, no reading, a reading below the stop threshold and
\* one at the threshold
BatteryReadings == {0 - 1, 0, 98, battery_stop_voltage}
BatteryOutcomes == {Returns(v) : v \in BatteryReadings} \cup {Raises}
FaultOutcomes == {Returns(TRUE), Returns(FALSE), Raises}

\* if self._get_battery_voltage: try: ... except Exception: battery_voltage = 0.0
\* abandoned: the error left _check_safety
BatteryReadUncaught(configured, o) ==
    IF ~configured THEN [battery_voltage |-> 0, raised |-> FALSE, abandoned |-> FALSE]
    ELSE IF o.raises THEN [battery_voltage |-> 0, raised |-> TRUE, abandoned |-> TRUE]
    ELSE [battery_voltage |-> o.value, raised |-> FALSE, abandoned |-> FALSE]

BatteryRead(configured, o) ==
    IF ~configured THEN [battery_voltage |-> 0, raised |-> FALSE, abandoned |-> FALSE]
    ELSE IF o.raises THEN [battery_voltage |-> 0, raised |-> TRUE, abandoned |-> FALSE]
    ELSE [battery_voltage |-> o.value, raised |-> FALSE, abandoned |-> FALSE]

\* if self._get_fault_status: try: ... except Exception: fault_detected = False
FaultRead(configured, o) ==
    IF ~configured
    THEN [fault_detected |-> FALSE, fault_message |-> "", raised |-> FALSE]
    ELSE IF o.raises
    THEN [fault_detected |-> FALSE, fault_message |-> "", raised |-> TRUE]
    ELSE [fault_detected |-> o.value,
          fault_message |-> IF o.value THEN FaultMessage ELSE "",
          raised |-> FALSE]

\* signal_ok = (now - last_signal) < self._signal_timeout
SignalOk(t, last_signal) == (t - last_signal) < signal_timeout

\* the battery check without the test for a valid reading
BatteryIssueAnyReading(v) == v < battery_stop_voltage

\* if battery_voltage > 0 and battery_voltage < self._battery_stop_voltage
BatteryIssue(v) == v > 0 /\ v < battery_stop_voltage

\* battery_ok after the mode-dependent checks
BatteryOk(mode, v) == ~(mode = AUTONOMOUS /\ BatteryIssue(v))

\* the Autonomous checks without the fault entry
IssuesFaultIgnored(mode, v, fault, msg, sok) ==
    IF mode = AUTONOMOUS
    THEN (IF BatteryIssue(v) THEN <<BatteryCritical>> ELSE <<>>)
         \o (IF ~sok THEN <<SignalLost>> ELSE <<>>)
    ELSE IF mode = MANUAL
    THEN (IF ~sok THEN <<SignalLost>> ELSE <<>>)
    ELSE <<>>

\* the issues list after the mode-dependent checks; the voltage printed in
\* the battery entry is left out
IssuesManualStrict(mode, v, fault, msg, sok) ==
    IF mode \in {AUTONOMOUS, MANUAL}
    THEN (IF BatteryIssue(v) THEN <<BatteryCritical>> ELSE <<>>)
         \o (IF fault THEN <<msg>> ELSE <<>>)
         \o (IF ~sok THEN <<SignalLost>> ELSE <<>>)
    ELSE <<>>

Issues(mode, v, fault, msg, sok) ==
    IF mode = AUTONOMOUS
    THEN (IF BatteryIssue(v) THEN <<BatteryCritical>> ELSE <<>>)
         \o (IF fault THEN <<msg>> ELSE <<>>)
         \o (IF ~sok THEN <<SignalLost>> ELSE <<>>)
    ELSE IF mode = MANUAL
    THEN \* the battery warning of Manual mode adds no issue
         (IF ~sok THEN <<SignalLost>> ELSE <<>>)
    ELSE <<>>

\* if issues and self._on_safety_issue and current_mode != OperationMode.STOPPED
\* for a cycle that applies the Autonomous checks in every mode
SafetyIssueModeBlind(mode, v, fault, msg, sok, configured) ==
    Issues(AUTONOMOUS, v, fault, msg, sok) # <<>> /\ configured

SafetyIssue(mode, v, fault, msg, sok, configured) ==
    Issues(mode, v, fault, msg, sok) # <<>> /\ configured /\ mode # STOPPED

\* "; ".join(issues)
RECURSIVE Join(_)
Join(issues) ==
    IF issues = <<>> THEN ""
    ELSE IF Len(issues) = 1 THEN issues[1]
    ELSE issues[1] \o "; " \o Join(Tail(issues))

\* the polling thread between cycles; the locals are those of _check_safety
\*   invoked        number of calls of the issue callback in this cycle
\*   wrote          the status was written in this cycle
\*   reason         the reason passed to the issue callback
\*   probe_raised   a probe raised in this cycle
\*   raised_before  a probe raised in an earlier cycle
Unread == "unread"
NewCycle(t, raised_before) ==
    [pc |-> "mode", now |-> t, current_mode |-> Unread, last_signal |-> 0,
     signal_ok |-> TRUE, battery_voltage |-> 0, fault_detected |-> FALSE,
     fault_message |-> "", battery_raised |-> FALSE, fault_raised |-> FALSE,
     invoked |-> 0, wrote |-> FALSE, reason |-> "",
     raised_before |-> raised_before]
IdleMonitor == [NewCycle(0, FALSE) EXCEPT !.pc = "loop"]

\* a loop that does not test the termination flag
MonLoopForever ==
    /\ mon.pc = "loop"
    /\ mon' = NewCycle(now, mon.raised_before \/ mon.battery_raised \/ mon.fault_raised)
    /\ UNCHANGED <<sm_mode, sm_status, last_signal_time, terminated, get_battery_voltage,
                   get_fault_status, on_safety_issue, smc, mode_set>>
    /\ UNCHANGED <<esVars, cmVars, webVars, lockVars, th, calls, now>>
\* while not self._terminated.is_set(): ... now = time.time()
MonLoop ==
    /\ mon.pc = "loop"
    /\ IF terminated
       THEN mon' = [mon EXCEPT !.pc = "done"]
       ELSE mon' = NewCycle(now, mon.raised_before \/ mon.battery_raised \/ mon.fault_raised)
    /\ UNCHANGED <<sm_mode, sm_status, last_signal_time, terminated, get_battery_voltage,
                   get_fault_status, on_safety_issue, smc, mode_set>>
    /\ UNCHANGED <<esVars, cmVars, webVars, lockVars, th, calls, now>>

\* with self._mode_lock: current_mode = self._mode
MonMode ==
    /\ mon.pc = "mode"
    /\ mon' = [mon EXCEPT !.pc = "signal", !.current_mode = sm_mode]
    /\ UNCHANGED <<sm_mode, sm_status, last_signal_time, terminated, get_battery_voltage,
                   get_fault_status, on_safety_issue, smc, mode_set>>
    /\ UNCHANGED <<esVars, cmVars, webVars, lockVars, th, calls, now>>

\* with self._signal_lock: last_signal = self._last_signal_time
MonSignal ==
    /\ mon.pc = "signal"
    /\ mon' = [mon EXCEPT !.pc = "battery", !.last_signal = last_signal_time,
                          !.signal_ok = SignalOk(mon.now, last_signal_time)]
    /\ UNCHANGED <<sm_mode, sm_status, last_signal_time, terminated, get_battery_voltage,
                   get_fault_status, on_safety_issue, smc, mode_set>>
    /\ UNCHANGED <<esVars, cmVars, webVars, lockVars, th, calls, now>>

\* the battery probe; an error that leaves _check_safety is caught by run()
MonBattery(o) ==
    /\ mon.pc = "battery"
    /\ LET r == BatteryRead(get_battery_voltage, o)
       IN  mon' = [mon EXCEPT !.pc = IF r.abandoned THEN "wait" ELSE "fault",
                              !.battery_voltage = r.battery_voltage,
                              !.battery_raised = r.raised]
    /\ UNCHANGED <<sm_mode, sm_status, last_signal_time, terminated, get_battery_voltage,
                   get_fault_status, on_safety_issue, smc, mode_set>>
    /\ UNCHANGED <<esVars, cmVars, webVars, lockVars, th, calls, now>>

\* the fault probe
MonFault(o) ==
    /\ mon.pc = "fault"
    /\ LET r == FaultRead(get_fault_status, o)
       IN  mon' = [mon EXCEPT !.pc = "status",
                              !.fault_detected = r.fault_detected,
                              !.fault_message = r.fault_message,
                              !.fault_raised = r.raised]
    /\ UNCHANGED <<sm_mode, sm_status, last_signal_time, terminated, get_battery_voltage,
                   get_fault_status, on_safety_issue, smc, mode_set>>
    /\ UNCHANGED <<esVars, cmVars, webVars, lockVars, th, calls, now>>

\* the mode-dependent checks, then  with self._status_lock: ...
MonStatus ==
    /\ mon.pc = "status"
    /\ sm_status' = SafetyStatus(sm_status.mode, mon.battery_voltage,
                                 BatteryOk(mon.current_mode, mon.battery_voltage),
                                 mon.fault_detected, mon.fault_message,
                                 mon.signal_ok)
    /\ mon' = [mon EXCEPT !.pc = "callback", !.wrote = TRUE]
    /\ UNCHANGED <<sm_mode, last_signal_time, terminated, get_battery_voltage,
                   get_fault_status, on_safety_issue, smc, mode_set>>
    /\ UNCHANGED <<esVars, cmVars, webVars, lockVars, th, calls, now>>

\* if issues and self._on_safety_issue and current_mode != STOPPED: the
\* callback is called once; an error it raises is caught by run()
MonCallback ==
    /\ mon.pc = "callback"
    /\ IF SafetyIssue(mon.current_mode, mon.battery_voltage, mon.fault_detected,
                      mon.fault_message, mon.signal_ok, on_safety_issue)
       THEN mon' = [mon EXCEPT !.pc = "wait", !.invoked = mon.invoked + 1,
                               !.reason = Join(Issues(mon.current_mode, mon.battery_voltage,
                                                      mon.fault_detected, mon.fault_message,
                                                      mon.signal_ok))]
       ELSE mon' = [mon EXCEPT !.pc = "wait"]
    /\ UNCHANGED <<sm_mode, sm_status, last_signal_time, terminated, get_battery_voltage,
                   get_fault_status, on_safety_issue, smc, mode_set>>
    /\ UNCHANGED <<esVars, cmVars, webVars, lockVars, th, calls, now>>

\* self._terminated.wait(self.POLL_INTERVAL)
MonWait ==
    /\ mon.pc = "wait"
    /\ mon' = [mon EXCEPT !.pc = "loop"]
    /\ UNCHANGED <<sm_mode, sm_status, last_signal_time, terminated, get_battery_voltage,
                   get_fault_status, on_safety_issue, smc, mode_set>>
    /\ UNCHANGED <<esVars, cmVars, webVars, lockVars, th, calls, now>>

\* the threads that call set_mode
ModeCallers == {"c1", "c2"}
IdleCaller == [pc |-> "idle", mode |-> STOPPED]

\* set_mode: with self._mode_lock: self._mode = mode
SetModeMode(c, mode) ==
    /\ smc[c].pc = "idle"
    /\ sm_mode' = mode
    /\ mode_set' = TRUE
    /\ smc' = [smc EXCEPT ![c] = [pc |-> "status", mode |-> mode]]
    /\ UNCHANGED <<sm_status, last_signal_time, terminated, get_battery_voltage,
                   get_fault_status, on_safety_issue, mon>>
    /\ UNCHANGED <<esVars, cmVars, webVars, lockVars, th, calls, now>>

\* set_mode: with self._status_lock: self._status.mode = mode
SetModeStatus(c) ==
    /\ smc[c].pc = "status"
    /\ sm_status' = [sm_status EXCEPT !.mode = smc[c].mode]
    /\ smc' = [smc EXCEPT ![c] = IdleCaller]
    /\ UNCHANGED <<sm_mode, last_signal_time, terminated, get_battery_voltage,
                   get_fault_status, on_safety_issue, mon, mode_set>>
    /\ UNCHANGED <<esVars, cmVars, webVars, lockVars, th, calls, now>>

\* signal_received: with self._signal_lock: self._last_signal_time = time.time()
SignalReceived ==
    /\ last_signal_time # now
    /\ last_signal_time' = now
    /\ UNCHANGED <<sm_mode, sm_status, terminated, get_battery_voltage,
                   get_fault_status, on_safety_issue, mon, smc, mode_set>>
    /\ UNCHANGED <<esVars, cmVars, webVars, lockVars, th, calls, now>>

\* terminate: self._terminated.set()
Terminate ==
    /\ ~terminated
    /\ terminated' = TRUE
    /\ UNCHANGED <<sm_mode, sm_status, last_signal_time, get_battery_voltage,
                   get_fault_status, on_safety_issue, mon, smc, mode_set>>
    /\ UNCHANGED <<esVars, cmVars, webVars, lockVars, th, calls, now>>

\* ------------------------------------------------ the SafetyMonitor's locks
\* Lock acquisition order of the class docstring
LockOrder(l) == CASE l = "mode" -> 1 [] l = "status" -> 2 [] l = "signal" -> 3

\* the `with` blocks of each operation, in program order
Acq(l) == <<"acquire", l>>
Rel(l) == <<"release", l>>

\* operations that nest their locks against the documented order
LockPlanNested(op) ==
    CASE op = "check_safety" -> <<Acq("mode"), Rel("mode"), Acq("signal"), Rel("signal"),
                                  Acq("status"), Rel("status")>>
      [] op = "set_mode" -> <<Acq("mode"), Acq("status"), Rel("status"), Rel("mode")>>
      [] op = "signal_received" -> <<Acq("signal"), Rel("signal")>>
      [] op = "status" -> <<Acq("status"), Acq("mode"), Rel("mode"), Rel("status")>>
      [] op = "mode" -> <<Acq("mode"), Rel("mode")>>

LockPlan(op) ==
    CASE op = "check_safety" -> <<Acq("mode"), Rel("mode"), Acq("signal"), Rel("signal"),
                                  Acq("status"), Rel("status")>>
      [] op = "set_mode" -> <<Acq("mode"), Rel("mode"), Acq("status"), Rel("status")>>
      [] op = "signal_received" -> <<Acq("signal"), Rel("signal")>>
      [] op = "status" -> <<Acq("status"), Rel("status")>>
      [] op = "mode" -> <<Acq("mode"), Rel("mode")>>

\* the polling thread and the threads that call the public operations
LockThreads == ModeCallers \cup {"poll"}
LockOps(p) == IF p = "poll" THEN {"check_safety"}
              ELSE {"set_mode", "signal_received", "status", "mode"}

\* thread p starts an operation
LockCall(p, op) ==
    /\ lk[p].op = "idle"
    /\ lk' = [lk EXCEPT ![p] = [op |-> op, i |-> 1]]
    /\ UNCHANGED <<esVars, cmVars, webVars, th, calls, now, sm_locks>>
    /\ UNCHANGED <<sm_mode, sm_status, last_signal_time, terminated, get_battery_voltage,
                   get_fault_status, on_safety_issue, mon, smc, mode_set>>

\* what thread p does next; threading.Lock is not reentrant
NextLockStep(p) == LockPlan(lk[p].op)[lk[p].i]
CanStep(p) ==
    /\ lk[p].op # "idle"
    /\ NextLockStep(p)[1] = "acquire" => sm_locks[NextLockStep(p)[2]] = NoThread

\* thread p enters or leaves a `with` block; after the last one it returns
LockStep(p) ==
    /\ CanStep(p)
    /\ sm_locks' = [sm_locks EXCEPT ![NextLockStep(p)[2]] =
                       IF NextLockStep(p)[1] = "acquire" THEN p ELSE NoThread]
    /\ lk' = [lk EXCEPT ![p] = IF lk[p].i = Len(LockPlan(lk[p].op))
                                THEN [op |-> "idle", i |-> 0]
                                ELSE [lk[p] EXCEPT !.i = @ + 1]]
    /\ UNCHANGED <<esVars, cmVars, webVars, th, calls, now>>
    /\ UNCHANGED <<sm_mode, sm_status, last_signal_time, terminated, get_battery_voltage,
                   get_fault_status, on_safety_issue, mon, smc, mode_set>>

InitLocks ==
    /\ sm_locks = [l \in {"mode", "status", "signal"} |-> NoThread]
    /\ lk = [p \in LockThreads |-> [op |-> "idle", i |-> 0]]

\* SafetyMonitor.__init__, constructed when the clock reads 0
InitSafetyMonitor ==
    /\ sm_mode = STOPPED
    /\ sm_status = SafetyStatus(STOPPED, 0, TRUE, FALSE, "", TRUE)
    /\ last_signal_time = 0
    /\ terminated = FALSE
    /\ mon = IdleMonitor
    /\ smc = [c \in ModeCallers |-> IdleCaller]
    /\ mode_set = FALSE
    /\ InitLocks

\* a monitor without probes or callback that is never started
InitMonitorUnused ==
    /\ InitSafetyMonitor
    /\ get_battery_voltage = FALSE
    /\ get_fault_status = FALSE
    /\ on_safety_issue = FALSE


\* --------------------------------------------- ControlManager on its own
CMRequestControl == \E u \in Users : request_control(u) /\ UNCHANGED <<esVars, webVars, th, calls, now, smVars>>
CMRequestTakeover == \E u \in Users : request_takeover(u) /\ UNCHANGED <<esVars, webVars, th, calls, now, smVars>>
CMCancelTakeover == \E u \in Users : cancel_takeover(u) /\ UNCHANGED <<esVars, webVars, th, calls, now, smVars>>
CMApproveTakeover == \E u \in Users : approve_takeover(u) /\ UNCHANGED <<esVars, webVars, th, calls, now, smVars>>
CMDisconnect == \E u \in Users : disconnect(u) /\ UNCHANGED <<esVars, webVars, th, calls, now, smVars>>
CMUpdateActivity == \E u \in Users : update_activity(u) /\ UNCHANGED <<esVars, webVars, th, calls, now, smVars>>

\* time passes
Tick ==
    /\ now < MaxTime
    /\ now' = now + 1
    /\ UNCHANGED <<esVars, cmVars, webVars, th, calls, smVars>>

NextCM ==
    \/ CMRequestControl
    \/ CMRequestTakeover
    \/ CMCancelTakeover
    \/ CMApproveTakeover
    \/ CMDisconnect
    \/ CMUpdateActivity
    \/ Tick

\* ------------------------------------------------- EmergencyStop on its own
InitES ==
    /\ stopped = FALSE
    /\ motor_stop \in BOOLEAN
    /\ on_state_change \in BOOLEAN
    /\ delivered = NoDelivery
    /\ history = <<>>
    /\ history_lock = NoThread
    /\ state_lock = NoThread
    /\ motorStopCalls = 0
    /\ stopTransitions = 0
    /\ resetsPerformed = 0
    /\ th = [t \in Threads |-> IdleThread]
    /\ calls = 0
    /\ now = 0
    /\ InitCM
    /\ InitServer
    /\ InitMonitorUnused

NextES ==
    \/ \E t \in Threads : CallTrigger(t, CallerOf(t), DefaultReason)
    \/ \E t \in Threads : TriggerLock(t)
    \/ \E t \in Threads : TriggerCritical(t)
    \/ \E t \in Threads : TriggerMotor(t)
    \/ \E t \in Threads : TriggerHistTry(t)
    \/ \E t \in Threads : TriggerAppend(t)
    \/ \E t \in Threads : TriggerState(t)
    \/ \E t \in Threads : CallReset(t, CallerOf(t))
    \/ \E t \in Threads : ResetLock(t)
    \/ \E t \in Threads : ResetCritical(t)
    \/ \E t \in Threads : ResetHistLock(t)
    \/ \E t \in Threads : ResetAppend(t)
    \/ \E t \in Threads : ResetState(t)
    \/ \E t \in Threads : Return(t)

SpecES == InitES /\ [][NextES]_vars

InitCMOnly ==
    /\ stopped = FALSE
    /\ motor_stop = FALSE
    /\ on_state_change = FALSE
    /\ delivered = NoDelivery
    /\ history = <<>>
    /\ history_lock = NoThread
    /\ state_lock = NoThread
    /\ motorStopCalls = 0
    /\ stopTransitions = 0
    /\ resetsPerformed = 0
    /\ th = [t \in Threads |-> IdleThread]
    /\ calls = 0
    /\ now = 0
    /\ InitCM
    /\ InitServer
    /\ InitMonitorUnused

SpecCM == InitCMOnly /\ [][NextCM]_vars

\* ------------------------------- the web server with both safety components
\* threads that handle socket events
WebThreads == {"t1", "t2"}

\* Wired as in monsterWebNew.py: both EmergencyStop callbacks are given.
\* Two clients have connected, alice first and bob second, so that
\* handle_connect made alice the Controller and bob an Observer; carol has
\* not connected.
InitWeb ==
    /\ stopped = FALSE
    /\ motor_stop = TRUE
    /\ on_state_change = TRUE
    /\ delivered = NoDelivery
    /\ history = <<>>
    /\ history_lock = NoThread
    /\ state_lock = NoThread
    /\ motorStopCalls = 0
    /\ stopTransitions = 0
    /\ resetsPerformed = 0
    /\ th = [t \in Threads |-> IdleThread]
    /\ calls = 0
    /\ now = 0
    /\ sessions = <<UserSession("alice", CONTROLLER, 0), UserSession("bob", OBSERVER, 0)>>
    /\ active_controller = "alice"
    /\ takeover_requester = NoUser
    /\ notified = << <<"bob", OBSERVER>> >>
    /\ lastCall = [op |-> "request_control", user |-> "bob", result |-> FALSE,
                   flip |-> FALSE, requester_left |-> FALSE]
    /\ InitServer
    /\ InitMonitorUnused

NextWeb ==
    \/ \E t \in WebThreads, sid \in Users : EventConnect(t, sid)
    \/ \E t \in WebThreads, sid \in Users : EventDisconnect(t, sid)
    \/ \E t \in WebThreads, sid \in Users, data \in DriveData : EventDrive(t, sid, data)
    \/ \E t \in WebThreads, sid \in Users, data \in JoystickData : EventJoystick(t, sid, data)
    \/ \E t \in WebThreads, sid \in Users : EventStop(t, sid)
    \/ \E t \in WebThreads, sid \in Users : EventEmergencyStop(t, sid)
    \/ \E t \in WebThreads, sid \in Users : EventEmergencyReset(t, sid)
    \/ \E t \in WebThreads, data \in SpeedData : EventSetSpeed(t, data)
    \/ \E t \in WebThreads : HandleConnect(t)
    \/ \E t \in WebThreads : DisconnectMotors(t)
    \/ \E t \in WebThreads : DisconnectCM(t)
    \/ \E t \in WebThreads : DisconnectWatch(t)
    \/ \E t \in WebThreads : DriveRole(t)
    \/ \E t \in WebThreads : DriveEstop(t)
    \/ \E t \in WebThreads : DriveScale(t)
    \/ \E t \in WebThreads : DriveSet(t)
    \/ \E t \in WebThreads : DriveWatch(t)
    \/ \E t \in WebThreads : JoystickRole(t)
    \/ \E t \in WebThreads : JoystickEstop(t)
    \/ \E t \in WebThreads : JoystickScale(t)
    \/ \E t \in WebThreads : JoystickSet(t)
    \/ \E t \in WebThreads : JoystickWatch(t)
    \/ \E t \in WebThreads : HandleStop(t)
    \/ \E t \in WebThreads : EmergencyStopCall(t)
    \/ \E t \in WebThreads : EmergencyStopSet(t)
    \/ \E t \in WebThreads : EmergencyResetRole(t)
    \/ \E t \in WebThreads : EmergencyResetCall(t)
    \/ \E t \in WebThreads : EmergencyResetEmit(t)
    \/ \E t \in WebThreads : HandleSetSpeed(t)
    \/ \E t \in WebThreads : TriggerLock(t)
    \/ \E t \in WebThreads : TriggerCritical(t)
    \/ \E t \in WebThreads : TriggerMotor(t)
    \/ \E t \in WebThreads : TriggerHistTry(t)
    \/ \E t \in WebThreads : TriggerAppend(t)
    \/ \E t \in WebThreads : TriggerState(t)
    \/ \E t \in WebThreads : ResetLock(t)
    \/ \E t \in WebThreads : ResetCritical(t)
    \/ \E t \in WebThreads : ResetHistLock(t)
    \/ \E t \in WebThreads : ResetAppend(t)
    \/ \E t \in WebThreads : ResetState(t)
    \/ \E t \in WebThreads : Return(t)
    \/ Tick

SpecWeb == InitWeb /\ [][NextWeb]_vars

\* --------------------------------------------- the watchdog and the handlers
\* The server of InitWeb some time later: alice is the Controller and bob an
\* Observer who may have been the Controller before, so either may still be
\* tracked, with a stamp that is fresh or already past the timeout; the
\* motors run only on a command of alice, who is then tracked.  The latch is
\* in either position.  The watchdog thread runs between two passes.
WatchSids == {"alice", "bob"}
\* the handlers run one at a time, on one thread beside the watchdog thread
WatchThreads == {"t1"}

InitWatch ==
    /\ stopped \in BOOLEAN
    /\ motor_stop = TRUE
    /\ on_state_change = TRUE
    /\ delivered = IF stopped THEN <<TRUE>> ELSE NoDelivery
    /\ history = <<>>
    /\ history_lock = NoThread
    /\ state_lock = NoThread
    /\ motorStopCalls = 0
    /\ stopTransitions = 0
    /\ resetsPerformed = 0
    /\ th = [t \in Threads |-> IdleThread]
    /\ calls = 0
    /\ now = 0
    /\ sessions = <<UserSession("alice", CONTROLLER, 0), UserSession("bob", OBSERVER, 0)>>
    /\ active_controller = "alice"
    /\ takeover_requester = NoUser
    /\ notified = << <<"bob", OBSERVER>> >>
    /\ lastCall = [op |-> "request_control", user |-> "bob", result |-> FALSE,
                   flip |-> FALSE, requester_left |-> FALSE]
    /\ speed_multiplier = 2
    /\ command_keys \in {<<>>, <<"alice">>, <<"bob", "alice">>}
    /\ last_command_time \in
         [{command_keys[i] : i \in DOMAIN command_keys} ->
            {now, now - watchdog_timeout - 1}]
    /\ \E on \in BOOLEAN :
         /\ on => "alice" \in DOMAIN last_command_time
         /\ current_left = IF on THEN SetMotorsOp(-4, 1).left ELSE 0
         /\ current_right = IF on THEN SetMotorsOp(-4, 1).right ELSE 0
    /\ wd = IdleWatchdog
    /\ InitMonitorUnused

\* one step of the handler running on thread t
HandlerStep(t) ==
    \/ DisconnectMotors(t)
    \/ DisconnectCM(t)
    \/ DisconnectWatch(t)
    \/ DriveRole(t)
    \/ DriveEstop(t)
    \/ DriveScale(t)
    \/ DriveSet(t)
    \/ DriveWatch(t)
    \/ HandleStop(t)
    \/ Return(t)

NextWatch ==
    \/ \E t \in WatchThreads, sid \in WatchSids, data \in DriveData : EventDrive(t, sid, data)
    \/ \E t \in WatchThreads, sid \in WatchSids : EventStop(t, sid)
    \/ \E t \in WatchThreads, sid \in WatchSids : EventDisconnect(t, sid)
    \/ \E t \in WatchThreads : HandlerStep(t)
    \/ WatchdogStep
    \/ WatchTick

\* The watchdog is a thread that loops until the server stops, the handlers
\* run to their end, and time passes.
SpecWatch ==
    /\ InitWatch
    /\ [][NextWatch]_vars
    /\ WF_vars(WatchdogStep)
    /\ WF_vars(WatchTick)
    /\ \A t \in WatchThreads : WF_vars(HandlerStep(t))

\* --------------------------------------------- the takeover events
\* the server of InitWeb; alice and bob send takeover events
NextTakeover ==
    \/ \E t \in WebThreads, sid \in WatchSids : EventRequestTakeover(t, sid)
    \/ \E t \in WebThreads, sid \in WatchSids : EventApproveTakeover(t, sid)
    \/ \E t \in WebThreads, sid \in WatchSids : EventDenyTakeover(t, sid)
    \/ \E t \in WebThreads : HandleRequestTakeover(t)
    \/ \E t \in WebThreads : HandleApproveTakeover(t)
    \/ \E t \in WebThreads : HandleDenyTakeover(t)
    \/ \E t \in WebThreads : Return(t)

SpecTakeover == InitWeb /\ [][NextTakeover]_vars

\* ------------------------------------- EmergencyStop with a long history
\* The latch after 50 triggers and 49 resets by "system": it is stopped and
\* the history holds MAX_HISTORY - 1 events.  Two threads call every
\* operation of the class.
PastEvent(i) ==
    EmergencyStopEvent("system", IF i % 2 = 1 THEN DefaultReason ELSE ResetReason)

HistThreads == {"t1", "t2"}
Limits == {0, 1, 2}
Timeouts == {0, NoTimeout}

InitHist ==
    /\ stopped = TRUE
    /\ motor_stop = TRUE
    /\ on_state_change = TRUE
    /\ delivered = <<TRUE>>
    /\ history = [i \in 1..(MAX_HISTORY - 1) |-> PastEvent(i)]
    /\ history_lock = NoThread
    /\ state_lock = NoThread
    /\ motorStopCalls = 0
    /\ stopTransitions = 0
    /\ resetsPerformed = 0
    /\ th = [t \in Threads |-> IdleThread]
    /\ calls = 0
    /\ now = 0
    /\ InitCM
    /\ InitServer
    /\ InitMonitorUnused

NextHist ==
    \/ \E t \in HistThreads : CallTrigger(t, CallerOf(t), DefaultReason)
    \/ \E t \in HistThreads : TriggerLock(t)
    \/ \E t \in HistThreads : TriggerCritical(t)
    \/ \E t \in HistThreads : TriggerMotor(t)
    \/ \E t \in HistThreads : TriggerHistTry(t)
    \/ \E t \in HistThreads : TriggerAppend(t)
    \/ \E t \in HistThreads : TriggerState(t)
    \/ \E t \in HistThreads : CallReset(t, CallerOf(t))
    \/ \E t \in HistThreads : ResetLock(t)
    \/ \E t \in HistThreads : ResetCritical(t)
    \/ \E t \in HistThreads : ResetHistLock(t)
    \/ \E t \in HistThreads : ResetAppend(t)
    \/ \E t \in HistThreads : ResetState(t)
    \/ \E t \in HistThreads : CallIsStopped(t)
    \/ \E t \in HistThreads : IsStoppedRead(t)
    \/ \E t \in HistThreads, limit \in Limits : CallGetHistory(t, limit)
    \/ \E t \in HistThreads : GetHistory(t)
    \/ \E t \in HistThreads, timeout \in Timeouts : CallWaitForReset(t, timeout)
    \/ \E t \in HistThreads : WaitForReset(t)
    \/ \E t \in HistThreads : Return(t)

SpecHist == InitHist /\ [][NextHist]_vars

\* --------------------------------------- EmergencyStop used by one thread
\* a sequential run: one thread makes every call, for varying actors
Callers == {"system", "alice", "bob"}

NextSeq ==
    \/ \E by \in Callers : CallTrigger("t1", by, DefaultReason)
    \/ TriggerLock("t1")
    \/ TriggerCritical("t1")
    \/ TriggerMotor("t1")
    \/ TriggerHistTry("t1")
    \/ TriggerAppend("t1")
    \/ TriggerState("t1")
    \/ \E by \in Callers : CallReset("t1", by)
    \/ ResetLock("t1")
    \/ ResetCritical("t1")
    \/ ResetHistLock("t1")
    \/ ResetAppend("t1")
    \/ ResetState("t1")
    \/ \E limit \in Limits : CallGetHistory("t1", limit)
    \/ GetHistory("t1")
    \/ Return("t1")

SpecSeq == InitES /\ [][NextSeq]_vars

\* -------------------------------------------------- SafetyMonitor on its own
\* --------------------------------------- a waiter beside trigger and reset
\* The latch was triggered once by "system" (no callbacks).  Thread t1 calls
\* wait_for_reset(None) while thread t2 calls trigger and reset.  Both
\* threads keep being scheduled; no thread is obliged to start a call.
InitWait ==
    /\ stopped = TRUE
    /\ motor_stop = FALSE
    /\ on_state_change = FALSE
    /\ delivered = NoDelivery
    /\ history = <<EmergencyStopEvent("system", DefaultReason)>>
    /\ history_lock = NoThread
    /\ state_lock = NoThread
    /\ motorStopCalls = 0
    /\ stopTransitions = 0
    /\ resetsPerformed = 0
    /\ th = [t \in Threads |-> IdleThread]
    /\ calls = 0
    /\ now = 0
    /\ InitCM
    /\ InitServer
    /\ InitMonitorUnused

\* a step of a trigger or reset call in progress on thread t
LatchStep(t) ==
    \/ TriggerLock(t)
    \/ TriggerCritical(t)
    \/ TriggerMotor(t)
    \/ TriggerHistTry(t)
    \/ TriggerAppend(t)
    \/ TriggerState(t)
    \/ ResetLock(t)
    \/ ResetCritical(t)
    \/ ResetHistLock(t)
    \/ ResetAppend(t)
    \/ ResetState(t)
    \/ Return(t)

NextWait ==
    \/ CallWaitForReset("t1", NoTimeout)
    \/ WaitForReset("t1")
    \/ CallTrigger("t2", CallerOf("t2"), DefaultReason)
    \/ CallReset("t2", CallerOf("t2"))
    \/ LatchStep("t2")

SpecWait ==
    InitWait /\ [][NextWait]_vars
    /\ WF_vars(WaitForReset("t1"))
    /\ WF_vars(LatchStep("t2"))
\* The monitor polls while other threads call set_mode, signal_received and
\* terminate and the clock advances; the monitor was constructed either with
\* both probes and the callback or with none of them.
InitSM ==
    /\ stopped = FALSE
    /\ motor_stop = FALSE
    /\ on_state_change = FALSE
    /\ delivered = NoDelivery
    /\ history = <<>>
    /\ history_lock = NoThread
    /\ state_lock = NoThread
    /\ motorStopCalls = 0
    /\ stopTransitions = 0
    /\ resetsPerformed = 0
    /\ th = [t \in Threads |-> IdleThread]
    /\ calls = 0
    /\ now = 0
    /\ InitCM
    /\ InitServer
    /\ InitSafetyMonitor
    /\ get_battery_voltage \in BOOLEAN
    /\ get_fault_status = get_battery_voltage
    /\ on_safety_issue = get_battery_voltage

NextSM ==
    \/ MonLoop
    \/ MonMode
    \/ MonSignal
    \/ \E o \in BatteryOutcomes : MonBattery(o)
    \/ \E o \in FaultOutcomes : MonFault(o)
    \/ MonStatus
    \/ MonCallback
    \/ MonWait
    \/ \E mode \in OperationMode : SetModeMode("c1", mode)
    \/ SetModeStatus("c1")
    \/ SignalReceived
    \/ Terminate
    \/ Tick

SpecSM == InitSM /\ [][NextSM]_vars

\* the polling thread is a running thread: probes and callbacks return, and
\* the scheduler lets it take its next step
MonitorStep ==
    \/ MonLoop
    \/ MonMode
    \/ MonSignal
    \/ \E o \in BatteryOutcomes : MonBattery(o)
    \/ \E o \in FaultOutcomes : MonFault(o)
    \/ MonStatus
    \/ MonCallback
    \/ MonWait

\* the running monitor, its mode being set and terminate() being called,
\* while the clock stands still
NextSMTerm ==
    \/ MonitorStep
    \/ \E mode \in OperationMode : SetModeMode("c1", mode)
    \/ SetModeStatus("c1")
    \/ Terminate

SpecSMTerm == InitSM /\ [][NextSMTerm]_vars /\ WF_vars(MonitorStep)

\* ------------------------------------------- set_mode called by two threads
\* The running monitor, constructed with both probes and the callback, while
\* two threads call set_mode; the clock stands still.
InitMode ==
    /\ stopped = FALSE
    /\ motor_stop = FALSE
    /\ on_state_change = FALSE
    /\ delivered = NoDelivery
    /\ history = <<>>
    /\ history_lock = NoThread
    /\ state_lock = NoThread
    /\ motorStopCalls = 0
    /\ stopTransitions = 0
    /\ resetsPerformed = 0
    /\ th = [t \in Threads |-> IdleThread]
    /\ calls = 0
    /\ now = 0
    /\ InitCM
    /\ InitServer
    /\ InitSafetyMonitor
    /\ get_battery_voltage = TRUE
    /\ get_fault_status = TRUE
    /\ on_safety_issue = TRUE

NextMode ==
    \/ MonitorStep
    \/ \E c \in ModeCallers, mode \in OperationMode : SetModeMode(c, mode)
    \/ \E c \in ModeCallers : SetModeStatus(c)

SpecMode == InitMode /\ [][NextMode]_vars
\* ------------------------------------- the monitor wired to EmergencyStop
\* SafetyMonitor(get_battery_voltage=..., get_fault_status=...,
\*               on_safety_issue=emergency_stop.trigger)
\* The polling thread runs trigger inside its callback, so the steps of that
\* trigger call are steps of thread MonitorThread.
MonitorThread == "t1"
MonitorName == "SafetyMonitor"

\* self._on_safety_issue("SafetyMonitor", reason), the callback being
\* EmergencyStop.trigger(triggered_by, reason)
MonCallbackTrigger ==
    /\ mon.pc = "callback"
    /\ IF SafetyIssue(mon.current_mode, mon.battery_voltage, mon.fault_detected,
                      mon.fault_message, mon.signal_ok, on_safety_issue)
       THEN LET reason == Join(Issues(mon.current_mode, mon.battery_voltage,
                                      mon.fault_detected, mon.fault_message,
                                      mon.signal_ok))
            IN  /\ calls < MaxCalls
                /\ calls' = calls + 1
                /\ mon' = [mon EXCEPT !.pc = "in_callback", !.invoked = mon.invoked + 1,
                                      !.reason = reason]
                /\ Set(MonitorThread,
                       [IdleThread EXCEPT !.op = "trigger", !.pc = "t_lock",
                                          !.by = MonitorName, !.reason = reason])
       ELSE /\ mon' = [mon EXCEPT !.pc = "wait"]
            /\ UNCHANGED <<th, calls>>
    /\ UNCHANGED <<sm_mode, sm_status, last_signal_time, terminated, get_battery_voltage,
                   get_fault_status, on_safety_issue, smc, mode_set>>
    /\ UNCHANGED <<esVars, cmVars, webVars, lockVars, now>>

\* trigger has returned to _check_safety, which returns to run()
MonCallbackReturn ==
    /\ mon.pc = "in_callback"
    /\ th[MonitorThread].pc = "done"
    /\ mon' = [mon EXCEPT !.pc = "wait"]
    /\ Set(MonitorThread, IdleThread)
    /\ UNCHANGED <<sm_mode, sm_status, last_signal_time, terminated, get_battery_voltage,
                   get_fault_status, on_safety_issue, smc, mode_set>>
    /\ UNCHANGED <<esVars, cmVars, webVars, lockVars, calls, now>>

\* The monitor is in Autonomous mode (set_mode(AUTONOMOUS) has returned), the
\* signal is fresh and the latch is clear.
InitWired ==
    /\ stopped = FALSE
    /\ motor_stop = TRUE
    /\ on_state_change \in BOOLEAN
    /\ delivered = NoDelivery
    /\ history = <<>>
    /\ history_lock = NoThread
    /\ state_lock = NoThread
    /\ motorStopCalls = 0
    /\ stopTransitions = 0
    /\ resetsPerformed = 0
    /\ th = [t \in Threads |-> IdleThread]
    /\ calls = 0
    /\ now = 0
    /\ InitCM
    /\ InitServer
    /\ sm_mode = AUTONOMOUS
    /\ sm_status = SafetyStatus(AUTONOMOUS, 0, TRUE, FALSE, "", TRUE)
    /\ last_signal_time = 0
    /\ terminated = FALSE
    /\ mon = IdleMonitor
    /\ smc = [c \in ModeCallers |-> IdleCaller]
    /\ mode_set = TRUE
    /\ InitLocks
    /\ get_battery_voltage = TRUE
    /\ get_fault_status = TRUE
    /\ on_safety_issue = TRUE

\* the polling thread; at every poll the battery probe returns a healthy
\* reading and the fault probe reports a fault
WiredMonitorStep ==
    \/ MonLoop
    \/ MonMode
    \/ MonSignal
    \/ MonBattery(Returns(battery_stop_voltage))
    \/ MonFault(Returns(TRUE))
    \/ MonStatus
    \/ MonCallbackTrigger
    \/ TriggerLock(MonitorThread)
    \/ TriggerCritical(MonitorThread)
    \/ TriggerMotor(MonitorThread)
    \/ TriggerHistTry(MonitorThread)
    \/ TriggerAppend(MonitorThread)
    \/ TriggerState(MonitorThread)
    \/ MonCallbackReturn
    \/ MonWait

\* another thread calls trigger and reset meanwhile
NextWired ==
    \/ WiredMonitorStep
    \/ CallTrigger("t2", CallerOf("t2"), DefaultReason)
    \/ CallReset("t2", CallerOf("t2"))
    \/ LatchStep("t2")

SpecWired ==
    InitWired /\ [][NextWired]_vars
    /\ WF_vars(WiredMonitorStep)
    /\ WF_vars(LatchStep("t2"))
\* the operations of the SafetyMonitor as sequences of lock steps
NextLocks ==
    \/ \E p \in LockThreads : \E op \in LockOps(p) : LockCall(p, op)
    \/ \E p \in LockThreads : LockStep(p)

SpecLocks == InitSM /\ [][NextLocks]_vars


\* ======================================================= EmergencyStop claims
\* trigger or reset has returned to its caller
Returned(t) == th[t].op \in {"trigger", "reset"} /\ th[t].pc = th[t].ret

AfterMotor(t) == th[t].pc \in {"t_hist", "t_append", "t_state"} \/ Returned(t)

\* C1: the motor-stop callback is invoked exactly once per not-stopped ->
\* stopped transition of the latch: the invocations made so far plus those
\* still owed by a trigger that won the transition equal the transitions,
\* the trigger that found the latch clear invokes it once and a trigger that
\* found the latch already stopped invokes it zero times.
C1_MotorStopOncePerTransition ==
    motor_stop =>
      /\ motorStopCalls
           + Cardinality({t \in Threads : th[t].op = "trigger" /\ th[t].pc = "t_motor"
                                             /\ ~th[t].examined})
         = stopTransitions
      /\ \A t \in Threads :
           (th[t].op = "trigger" /\ AfterMotor(t)) =>
              th[t].motorInvoked = (IF th[t].examined THEN 0 ELSE 1)

\* two triggers raced on a clear latch and both returned: one callback call
C1_Witness ==
    /\ motor_stop
    /\ motorStopCalls = 1
    /\ \E t, u \in Threads :
         /\ t # u
         /\ th[t].op = "trigger" /\ Returned(t) /\ ~th[t].examined
         /\ th[u].op = "trigger" /\ Returned(u) /\ th[u].examined
         /\ ~th[u].resetSince

\* C7: an exception raised by the motor-stop or the state-change callback
\* never leaves trigger or reset; a returned trigger leaves the latch stopped
\* (no reset since), attempted the state-change callback when it performed the
\* transition (also after a failing motor-stop callback) and appended its
\* event unless the history lock was busy; a reset that performed the
\* transition returns True with its event appended.
C7_CallbackErrorsContained ==
    \A t \in Threads :
      (th[t].pc = "done" \/ Returned(t)) =>
        /\ ~th[t].raised
        /\ th[t].op = "trigger" =>
             /\ ~th[t].resetSince => stopped
             /\ (th[t].performed_transition /\ on_state_change)
                   => Len(th[t].stateInvoked) = 1
             /\ th[t].appended = 1 \/ th[t].histBusy
        /\ (th[t].op = "reset" /\ th[t].performed_transition) =>
             /\ th[t].result = "True"
             /\ th[t].appended = 1

\* a trigger returned although both of its callbacks threw
C7_Witness ==
    \E t \in Threads :
      /\ th[t].op = "trigger" /\ Returned(t)
      /\ th[t].motorThrew /\ th[t].stateThrew
      /\ th[t].appended = 1 /\ stopped

C8_State ==
    \A t \in Threads :
      (th[t].op = "reset" /\ Returned(t)) =>
        /\ (th[t].result = "False") <=> ~th[t].examined
        /\ th[t].result = "False" =>
             /\ th[t].stateInvoked = <<>>
             /\ th[t].appended = 0
             /\ th[t].motorInvoked = 0

C8_Step ==
    \A t \in Threads :
      (th[t].pc = "r_crit" /\ th'[t].pc = th'[t].ret /\ th'[t].result = "False") =>
        /\ stopped' = stopped
        /\ history' = history

\* C8: reset returns False if and only if the latch was clear when the call
\* examined it, and a reset that returns False has no effect: the latch is
\* unchanged, no callback is invoked and no event is appended.
C8_ResetFalseIffClear == [](C8_State) /\ [][C8_Step]_vars

\* a reset returned False on a clear latch
C8_Witness ==
    \E t \in Threads :
      /\ th[t].op = "reset" /\ Returned(t) /\ th[t].result = "False"
      /\ ~stopped /\ on_state_change

\* C9: of the resets racing on a stopped latch exactly one performs the
\* transition (every stop transition is answered by at most one winning reset,
\* and by exactly one once the latch is clear); the winner returns True,
\* invokes the state-change callback once with (False, "Reset by <actor>")
\* and appends one reset event; every other reset returns False.
C9_OneResetWins ==
    /\ resetsPerformed + (IF stopped THEN 1 ELSE 0) = stopTransitions
    /\ \A t \in Threads :
         (th[t].op = "reset" /\ Returned(t)) =>
            IF th[t].performed_transition
            THEN /\ th[t].result = "True"
                 /\ th[t].appended = 1
                 /\ on_state_change =>
                      th[t].stateInvoked = << <<FALSE, ResetMessage(th[t].by)>> >>
            ELSE /\ th[t].result = "False"
                 /\ th[t].stateInvoked = <<>>
    /\ \A t \in Threads :
         (th[t].op = "reset" /\ th[t].pc = "r_state") =>
            /\ history # <<>>
            /\ \E i \in 1..Len(history) :
                 history[i] = EmergencyStopEvent(th[t].by, ResetReason)

\* two resets raced on a stopped latch: one returned True, the other False
C9_Witness ==
    \E t, u \in Threads :
      /\ t # u
      /\ th[t].op = "reset" /\ Returned(t) /\ th[t].result = "True"
      /\ th[u].op = "reset" /\ Returned(u) /\ th[u].result = "False"
      /\ on_state_change
      /\ stopTransitions = 1

\* ====================================================== ControlManager claims
Controllers == {i \in DOMAIN sessions : sessions[i].role = CONTROLLER}

\* C2: after any sequence of ControlManager operations at most one session
\* has role Controller.
C2_AtMostOneController == Cardinality(Controllers) <= 1

\* a takeover was approved while a third session looked on: the two roles
\* were swapped and one Controller remains
C2_Witness ==
    /\ lastCall.op = "approve_takeover"
    /\ lastCall.result = TRUE
    /\ Len(sessions) = 3
    /\ Cardinality(Controllers) = 1

\* C3: active_controller names an actor if and only if that actor has a
\* session with role Controller, and no other session has role Controller.
C3_ActiveIffController ==
    /\ active_controller # NoUser =>
         /\ HasSession(sessions, active_controller)
         /\ GetUserRole(sessions, active_controller) = CONTROLLER
    /\ \A i \in DOMAIN sessions :
         sessions[i].role = CONTROLLER => sessions[i].user_id = active_controller

\* C4: a pending takeover requester is a registered session and is not the
\* active controller.
C4_PendingIsNonController ==
    takeover_requester # NoUser =>
      /\ HasSession(sessions, takeover_requester)
      /\ takeover_requester # active_controller

C10_Step ==
    \A u \in Users :
      (lastCall' # lastCall /\ lastCall'.op = "request_control" /\ lastCall'.user = u) =>
        /\ HasSession(sessions', u)
        /\ IF active_controller = NoUser
           THEN /\ active_controller' = u
                /\ GetUserRole(sessions', u) = CONTROLLER
                /\ lastCall'.result = TRUE
           ELSE IF active_controller = u
           THEN /\ lastCall'.result = TRUE
                /\ active_controller' = u
                /\ \A v \in Users : GetUserRole(sessions', v) = GetUserRole(sessions, v)
           ELSE /\ GetUserRole(sessions', u) = OBSERVER
                /\ lastCall'.result = FALSE
                /\ active_controller' = active_controller

\* C10: request_control(a) makes a Controller and returns True when there is
\* no active controller, returns True and changes no role when a is the
\* active controller, and otherwise makes a Observer and returns False; a has
\* a session afterwards.
C10_RequestControl == [][C10_Step]_vars

\* ==================================================== MonsterWebServer claims
C5_Step ==
    \A t \in Threads :
      (th[t].pc \in {"d_set", "j_set"} /\ th'[t].pc # th[t].pc /\ stopped) =>
        /\ current_left' = 0
        /\ current_right' = 0

\* C5: while the latch is stopped no drive or joystick command forwards a
\* non-zero value to the motor callback or records one as current output.
C5_NoMotionWhileStopped == [][C5_Step]_vars

C6_State ==
    \A t \in Threads :
      th[t].handler = "emergency_stop" =>
        /\ th[t].pc \in {"es_set", "done"} =>
             /\ th[t].op = "trigger"
             /\ ~th[t].raised
             /\ ~th[t].resetSince => stopped

C6_Step ==
    \A t \in Threads :
      (th[t].pc = "es_set" /\ th'[t].pc = "done") =>
        /\ current_left' = 0
        /\ current_right' = 0

\* C6: the emergency_stop handler calls trigger for every sender, whatever
\* its role; once trigger has returned the latch is stopped unless a reset
\* came in between, and the handler then sets the motor output to zero.
C6_AnyActorCanStop == [](C6_State) /\ [][C6_Step]_vars

\* an Observer and a client without a session have both stopped the robot
C6_Witness ==
    \E t, u \in Threads :
      /\ th[t].handler = "emergency_stop" /\ th[t].pc = "done" /\ th[t].sid = "bob"
      /\ th[u].handler = "emergency_stop" /\ th[u].pc = "done" /\ th[u].sid = "carol"
      /\ GetUserRole(sessions, "bob") = OBSERVER
      /\ ~HasSession(sessions, "carol")
      /\ stopped
      /\ current_left = 0 /\ current_right = 0

\* --------------------------------------------------------- takeover claims
\* the call that made this step
Called(op, u) == lastCall' # lastCall /\ lastCall'.op = op /\ lastCall'.user = u

\* every session keeps its role
RolesUnchanged == \A v \in Users : GetUserRole(sessions', v) = GetUserRole(sessions, v)

C11_Step ==
    \A a \in Users :
      Called("request_takeover", a) =>
        IF \/ a = active_controller
           \/ ~HasSession(sessions, a)
           \/ takeover_requester # NoUser
        THEN /\ lastCall'.result = FALSE
             /\ takeover_requester' = takeover_requester
        ELSE /\ lastCall'.result = TRUE
             /\ takeover_requester' = a

\* C11: request_takeover(a) returns False and leaves the pending requester
\* unchanged if a is the active controller, a has no session, or a takeover
\* (a's own included) is already pending; in every other case it records a as
\* the pending requester and returns True.  A second request never replaces
\* the first.
C11_RequestTakeover == [][C11_Step]_vars

\* a third session asked for a takeover while another session's request was
\* pending: the call returned False and the first request is still pending
C11_Witness ==
    /\ lastCall.op = "request_takeover"
    /\ lastCall.result = FALSE
    /\ HasSession(sessions, lastCall.user)
    /\ lastCall.user # active_controller
    /\ takeover_requester # NoUser
    /\ takeover_requester # lastCall.user
    /\ takeover_requester # active_controller

C12_Step ==
    \A a \in Users :
      (Called("approve_takeover", a) /\ lastCall'.result = TRUE) =>
        /\ active_controller' = takeover_requester
        /\ GetUserRole(sessions', takeover_requester) = CONTROLLER
        /\ GetUserRole(sessions', a) = OBSERVER
        /\ takeover_requester' = NoUser
        /\ notified' = << <<takeover_requester, CONTROLLER>>, <<a, OBSERVER>> >>

\* C12: whenever approve_takeover returns True, the former pending requester
\* is the active controller with role Controller, the approver has role
\* Observer, no takeover is pending, and exactly two notifications were
\* fired: (requester, Controller) then (former controller, Observer).
C12_ApproveTakeover == [][C12_Step]_vars

\* the same, for approvals where the requester is not the approver
C12_DistinctStep ==
    \A a \in Users :
      (Called("approve_takeover", a) /\ lastCall'.result = TRUE
         /\ takeover_requester # a) =>
        /\ active_controller' = takeover_requester
        /\ GetUserRole(sessions', takeover_requester) = CONTROLLER
        /\ GetUserRole(sessions', a) = OBSERVER
        /\ takeover_requester' = NoUser
        /\ notified' = << <<takeover_requester, CONTROLLER>>, <<a, OBSERVER>> >>
C12_Distinct == [][C12_DistinctStep]_vars

C13_Step ==
    \A a \in Users :
      (Called("approve_takeover", a)
         /\ (a # active_controller \/ takeover_requester = NoUser)) =>
        /\ lastCall'.result = FALSE
        /\ sessions' = sessions
        /\ active_controller' = active_controller
        /\ takeover_requester' = takeover_requester
        /\ notified' = <<>>

\* C13: approve_takeover called by any actor other than the active
\* controller, or called when no takeover is pending, returns False and
\* changes nothing: roles, active controller and pending requester are
\* unchanged and no notification is fired.
C13_ApproveRejected == [][C13_Step]_vars

\* a session that is not the active controller tried to approve a pending
\* takeover: the call returned False and the request is still pending
C13_Witness ==
    /\ lastCall.op = "approve_takeover"
    /\ lastCall.result = FALSE
    /\ HasSession(sessions, lastCall.user)
    /\ lastCall.user # active_controller
    /\ active_controller # NoUser
    /\ takeover_requester # NoUser
    /\ notified = <<>>

C14_Step ==
    \A a \in Users :
      Called("cancel_takeover", a) =>
        /\ lastCall'.result = TRUE <=>
             /\ takeover_requester # NoUser
             /\ (a = takeover_requester \/ a = active_controller)
        /\ lastCall'.result = TRUE => takeover_requester' = NoUser
        /\ RolesUnchanged
        /\ SessionIds(sessions') = SessionIds(sessions)
        /\ active_controller' = active_controller

\* C14: cancel_takeover(a) returns True if and only if a takeover is pending
\* and a is the pending requester or the active controller; when it returns
\* True the pending request is cleared; in every case no session's role
\* changes and the active controller does not change.
C14_CancelTakeover == [][C14_Step]_vars

\* the active controller denied another session's pending request: the call
\* returned True, the request is gone and the controller is still in control
C14_Witness ==
    /\ lastCall.op = "cancel_takeover"
    /\ lastCall.result = TRUE
    /\ lastCall.user = active_controller
    /\ GetUserRole(sessions, active_controller) = CONTROLLER
    /\ Len(sessions) >= 2
    /\ takeover_requester = NoUser

\* --------------------------------------------------------- disconnect claims
\* the sessions that remain when a leaves, in insertion order
Remaining(a) == Remove(sessions, a)

\* positions of the remaining sessions with role Observer
RemainingObservers(a) == {i \in DOMAIN Remaining(a) : Remaining(a)[i].role = OBSERVER}

\* the control-change notifications of the last call that grant control
Grants(n) == {i \in DOMAIN n : n[i][2] = CONTROLLER}

C15_Step ==
    \A a \in Users :
      Called("disconnect", a) =>
        IF a = active_controller /\ HasSession(sessions, a)
        THEN IF RemainingObservers(a) # {}
             THEN \E k \in RemainingObservers(a) :
                    /\ \A j \in RemainingObservers(a) : k <= j
                    /\ active_controller' = Remaining(a)[k].user_id
                    /\ GetUserRole(sessions', active_controller') = CONTROLLER
                    /\ Cardinality(Grants(notified')) = 1
                    /\ \E i \in Grants(notified') :
                         notified'[i] = <<active_controller', CONTROLLER>>
             ELSE /\ active_controller' = NoUser
                  /\ Grants(notified') = {}
        ELSE active_controller' = active_controller

\* C15: when the active controller disconnects, the remaining Observer that
\* was inserted earliest into the session registry becomes the active
\* controller with role Controller, with one control-change notification for
\* it; if no Observer remains there is no active controller afterwards; a
\* disconnect of a non-controller never changes the active controller.
C15_DisconnectPromotes == [][C15_Step]_vars

\* the controller left two Observers behind: the one registered first now
\* holds control, the other is still an Observer
C15_Witness ==
    /\ lastCall.op = "disconnect"
    /\ Len(sessions) = 2
    /\ active_controller = sessions[1].user_id
    /\ sessions[1].role = CONTROLLER
    /\ sessions[2].role = OBSERVER
    /\ notified = << <<lastCall.user, DISCONNECTED>>, <<active_controller, CONTROLLER>> >>

\* once the pending requester has left, and until a new request is made, no
\* takeover is pending
C16_State == lastCall.requester_left => ~HasPendingTakeover(takeover_requester)

C16_Step ==
    \A a \in Users :
      /\ (Called("disconnect", a) /\ a = takeover_requester /\ HasSession(sessions, a)) =>
           /\ ~HasPendingTakeover(takeover_requester')
           /\ lastCall'.requester_left
      /\ (Called("approve_takeover", a) /\ lastCall.requester_left
            /\ a = active_controller) =>
           /\ lastCall'.result = FALSE
           /\ active_controller' = a
           /\ GetUserRole(sessions', a) = GetUserRole(sessions, a)
           /\ ~HasPendingTakeover(takeover_requester')

\* C16: when the pending takeover requester disconnects, the pending request
\* is cleared at once (has_pending_takeover becomes False), and a later
\* approve_takeover by the controller returns False and leaves the controller
\* in control with no takeover pending.
C16_RequesterLeaves == [](C16_State) /\ [][C16_Step]_vars

\* the requester left, then the controller tried to approve: the call
\* returned False and the controller still holds control
C16_Witness ==
    /\ lastCall.op = "approve_takeover"
    /\ lastCall.result = FALSE
    /\ lastCall.requester_left
    /\ lastCall.user = active_controller
    /\ GetUserRole(sessions, active_controller) = CONTROLLER
    /\ ~HasPendingTakeover(takeover_requester)

\* ======================================================= SafetyMonitor claims
\* the call of _check_safety made in this cycle has returned
CycleDone == mon.pc \in {"wait", "loop", "done"} /\ mon.current_mode # Unread

\* C17: a poll cycle that reads mode Stopped never invokes the safety-issue
\* callback, whatever the battery voltage, the fault probe and the signal age
\* are; a monitor whose mode was never set reads Stopped and never raises an
\* issue.
C17_StoppedRaisesNothing ==
    /\ mon.current_mode = STOPPED => mon.invoked = 0
    /\ ~mode_set => (mon.current_mode \in {Unread, STOPPED} /\ mon.invoked = 0)

\* a cycle in mode Stopped ended without a call of the configured callback
\* although the battery was low, a fault was reported and the signal was lost
C17_Witness ==
    /\ CycleDone
    /\ on_safety_issue
    /\ mon.current_mode = STOPPED
    /\ mon.battery_voltage = 98
    /\ mon.fault_detected
    /\ ~mon.signal_ok
    /\ mon.invoked = 0

\* C18: a poll cycle that reads mode Manual invokes the safety-issue callback
\* if and only if the signal is not ok, that is the age of the last signal is
\* at least signal_timeout; a low battery reading or a detected fault never
\* raises an issue in Manual mode.
C18_ManualSignalOnly ==
    (CycleDone /\ on_safety_issue /\ mon.current_mode = MANUAL) =>
      /\ mon.invoked = (IF mon.signal_ok THEN 0 ELSE 1)
      /\ mon.signal_ok <=> ~(mon.now - mon.last_signal >= signal_timeout)
      /\ mon.invoked = 1 => mon.reason = SignalLost

\* a Manual cycle with a low battery and a fault but a fresh signal ended
\* without a call of the callback
C18_Witness ==
    /\ CycleDone
    /\ on_safety_issue
    /\ mon.current_mode = MANUAL
    /\ mon.battery_voltage = 98
    /\ mon.fault_detected
    /\ mon.signal_ok
    /\ mon.invoked = 0

\* C19: a poll cycle that reads mode Autonomous invokes the safety-issue
\* callback exactly once if the battery reading v satisfies
\* 0 < v < stop threshold, or the fault probe reports a fault, or the signal
\* is not ok, and not at all otherwise; a reading v <= 0 is never a battery
\* issue.
C19_AutonomousIssues ==
    (CycleDone /\ on_safety_issue /\ mon.current_mode = AUTONOMOUS) =>
      /\ mon.invoked =
           (IF \/ (0 < mon.battery_voltage /\ mon.battery_voltage < battery_stop_voltage)
               \/ mon.fault_detected
               \/ ~mon.signal_ok
            THEN 1 ELSE 0)
      /\ mon.battery_voltage <= 0 => sm_status.battery_ok

\* an Autonomous cycle found all three issues and called the callback once
C19_Witness ==
    /\ CycleDone
    /\ on_safety_issue
    /\ mon.current_mode = AUTONOMOUS
    /\ mon.battery_voltage = 98
    /\ mon.fault_detected
    /\ ~mon.signal_ok
    /\ mon.invoked = 1

\* a cycle in which a probe raised still wrote the status, with voltage 0 and
\* no battery issue, respectively with no fault; the loop ends only after
\* terminate()
C20_State ==
    /\ (CycleDone /\ mon.battery_raised) =>
         /\ mon.wrote
         /\ sm_status.battery_voltage = 0
         /\ sm_status.battery_ok
    /\ (CycleDone /\ mon.fault_raised) =>
         /\ mon.wrote
         /\ ~sm_status.fault_detected
         /\ sm_status.fault_message = ""
    /\ mon.pc = "done" => terminated

\* the polling thread goes from a finished cycle to the next one
C20_Step ==
    (mon' # mon /\ mon.pc = "loop" /\ ~terminated) => mon'.pc = "mode"

\* C20: if the battery probe or the fault probe raises during a poll cycle,
\* the cycle continues with voltage = 0 (no battery issue) respectively
\* fault = False, still writes the status, and the polling loop goes on to
\* later cycles; a probe error never ends the loop.
C20_ProbeErrorsContained == [](C20_State) /\ [][C20_Step]_vars

\* after a cycle in which a probe raised, a later cycle ran in Autonomous
\* mode, both of its probes raised, and it wrote the status and returned
C20_Witness ==
    /\ CycleDone
    /\ mon.raised_before
    /\ mon.battery_raised
    /\ mon.fault_raised
    /\ mon.current_mode = AUTONOMOUS
    /\ mon.wrote
    /\ ~terminated

C28_Step == sm_status' # sm_status => mon' # mon

\* C28: the stored status is written only by the polling thread: no step of
\* set_mode, signal_received, terminate or a reader changes any field of it.
C28_StatusWrittenByPoller == [][C28_Step]_vars

\* with the flag set, the loop test does not start a cycle
C30_Step == (terminated /\ mon.pc = "loop") => mon'.pc # "mode"

\* C30: once terminate() has been called the polling loop finishes at most
\* the cycle it is in and its current wait and then exits: the thread
\* eventually terminates and never starts a cycle after it observed the flag.
C30_Terminates == [][C30_Step]_vars /\ (terminated ~> mon.pc = "done")

\* terminate() was called during a cycle; the cycle wrote the status, the
\* wait ended and the thread left the loop
C30_Witness ==
    /\ terminated
    /\ mon.pc = "done"
    /\ mon.wrote

\* the locks thread p holds
HeldBy(p) == {l \in DOMAIN sm_locks : sm_locks[l] = p}

\* a thread that is about to acquire a lock holds no lock later in the order
C29_Ordered ==
    \A p \in LockThreads :
      (lk[p].op # "idle" /\ NextLockStep(p)[1] = "acquire") =>
        \A h \in HeldBy(p) : LockOrder(h) < LockOrder(NextLockStep(p)[2])

\* while an operation is in progress, some thread in an operation can step
C29_NoDeadlock ==
    (\E p \in LockThreads : lk[p].op # "idle") =>
      \E p \in LockThreads : CanStep(p)

\* C29: no SafetyMonitor code path acquires one of the three locks while
\* holding a lock later in the order mode-lock, status-lock, signal-lock, and
\* no interleaving of the poll cycle with set_mode, signal_received and the
\* status and mode readers reaches a deadlock.
C29_LockOrder == C29_Ordered /\ C29_NoDeadlock

\* the polling thread holds the status lock while a set_mode call and a
\* status reader both wait for it
C29_Witness ==
    /\ sm_locks["status"] = "poll"
    /\ lk["c1"].op = "set_mode" /\ NextLockStep("c1") = Acq("status")
    /\ lk["c2"].op = "status" /\ NextLockStep("c2") = Acq("status")

\* ---------------------------------------------------------- history claims
\* the event the thread at an append step is about to record
PendingEvent(t) ==
    EmergencyStopEvent(th[t].by,
                       IF th[t].pc = "t_append" THEN th[t].reason ELSE ResetReason)

C27_State == Len(history) <= MAX_HISTORY

Appends(t) == th[t].pc \in {"t_append", "r_append"} /\ th'[t].pc # th[t].pc

C27_Step ==
    /\ history' # history => \E t \in Threads : Appends(t)
    /\ \A t \in Threads :
          Appends(t) =>
              history' = IF Len(history) < MAX_HISTORY
                         THEN Append(history, PendingEvent(t))
                         ELSE Append(Tail(history), PendingEvent(t))

\* C27: the history never holds more than MAX_HISTORY events, and an append
\* to a full history drops the oldest event and keeps the new one as the last.
C27_HistoryBounded == []C27_State /\ [][C27_Step]_vars

\* a trigger or reset has returned after appending to a full history: the
\* first of the earlier events is gone
C27_Witness ==
    /\ Len(history) = MAX_HISTORY
    /\ history[1] = PastEvent(2)
    /\ \E t \in Threads : Returned(t) /\ th[t].appended = 1

\* the limit most recent events of h, the newest first
MostRecentFirst(h, limit) ==
    [i \in 1..Min2(limit, Len(h)) |-> h[Len(h) - i + 1]]

C24_Step ==
    \A t \in Threads :
        (th[t].pc = "h_read" /\ th'[t].pc = "done") =>
            th'[t].events = MostRecentFirst(history, th[t].limit)

\* C24: for every limit >= 0, get_history(limit) returns at most limit
\* events, the most recent ones, newest first (none for limit = 0).
C24_HistoryMostRecentFirst == [][C24_Step]_vars

\* ------------------------------------------------------ wait_for_reset claims
\* a wait_for_reset(0) call of thread t is in progress or has just returned
WaitZero(t) == th[t].op = "wait_for_reset" /\ th[t].timeout = 0

\* the read of the latch that decides the result of wait_for_reset(0)
C23_Step ==
    \A t \in Threads :
        (WaitZero(t) /\ th[t].pc \in {"w_first", "w_zero"} /\ th'[t].pc = "done") =>
            th'[t].result = IF stopped THEN "False" ELSE "True"

C23_State ==
    \A t \in Threads :
        WaitZero(t) => /\ ~th[t].slept
                       /\ th[t].pc \in {"w_first", "w_zero", "done"}
                       /\ th[t].pc = "done" => th[t].result \in {"True", "False"}

\* C23: wait_for_reset(0) never enters the polling sleep, and it returns the
\* negation of the latch as read when it returns.
C23_WaitZeroNonBlocking == []C23_State /\ [][C23_Step]_vars

\* wait_for_reset(0) found the latch set and returned False
C23_Witness ==
    \E t \in Threads : WaitZero(t) /\ th[t].pc = "done" /\ th[t].result = "False"

\* wait_for_reset(0) found the latch clear and returned True
C23_WitnessTrue ==
    \E t \in Threads : WaitZero(t) /\ th[t].pc = "done" /\ th[t].result = "True"

\* ---------------------------------------------------------- is_stopped claim
C25_State ==
    \A t \in Threads : th[t].pc = "s_read" => ENABLED IsStoppedRead(t)

C25_Step ==
    \A t \in Threads :
        (th[t].pc = "s_read" /\ th'[t].pc = "done") =>
            th'[t].result = IF stopped THEN "True" ELSE "False"

\* C25: is_stopped can complete in every state, whoever holds the state lock
\* or the history lock, and it returns the latch.
C25_IsStoppedLockFree == []C25_State /\ [][C25_Step]_vars

\* is_stopped has returned while another thread is inside the state-lock
\* critical section of trigger or reset
C25_Witness ==
    \E t \in Threads :
        /\ th[t].op = "is_stopped" /\ th[t].pc = "done"
        /\ state_lock \notin {NoThread, t}

\* is_stopped has returned while another thread holds the history lock
C25_WitnessHistory ==
    \E t \in Threads :
        /\ th[t].op = "is_stopped" /\ th[t].pc = "done"
        /\ history_lock \notin {NoThread, t}

\* --------------------------------------------------- trigger history claim
TriggerReturned(t) == Returned(t) /\ th[t].op = "trigger"

C26_State ==
    \A t \in Threads :
        /\ th[t].pc = "t_hist" => ENABLED TriggerHistTry(t)
        /\ TriggerReturned(t) =>
              /\ th[t].appended = IF th[t].histBusy THEN 0 ELSE 1
              /\ th[t].motorInvoked = IF th[t].motor_callback THEN 1 ELSE 0
              /\ Len(th[t].stateInvoked) = IF th[t].state_callback THEN 1 ELSE 0

C26_Step ==
    \A t \in Threads :
        /\ (th[t].pc = "t_crit" /\ th'[t].pc # "t_crit") => stopped'
        /\ (th[t].pc = "t_hist" /\ th'[t].pc # "t_hist") =>
              IF history_lock = NoThread
              THEN th'[t].pc = "t_append" /\ ~th'[t].histBusy
              ELSE th'[t].pc = "t_state" /\ th'[t].histBusy /\ history' = history
        /\ (th[t].pc = "t_append" /\ th'[t].pc # "t_append") =>
              /\ history'[Len(history')] = EmergencyStopEvent(th[t].by, th[t].reason)
              /\ th'[t].appended = 1

\* C26: a trigger call appends exactly one event when it finds the history
\* lock free, performing the stop transition or not; when another thread
\* holds the lock it drops the event without waiting and still sets the
\* latch and invokes the callbacks it captured.
C26_TriggerHistory == []C26_State /\ [][C26_Step]_vars

\* a trigger that performed the transition found the history lock held: it
\* returned with both callbacks invoked and no event appended
C26_Witness ==
    \E t \in Threads :
        /\ TriggerReturned(t)
        /\ th[t].performed_transition /\ th[t].histBusy
        /\ th[t].appended = 0 /\ th[t].motorInvoked = 1 /\ Len(th[t].stateInvoked) = 1

\* a trigger that found the latch already set appended its event
C26_WitnessNoTransition ==
    \E t \in Threads :
        TriggerReturned(t) /\ ~th[t].performed_transition /\ th[t].appended = 1

\* ----------------------------------------------------------- watchdog claims
MotorsOn == current_left # 0 \/ current_right # 0

\* the i-th entry the pass found timed out has been removed: by the pass, or
\* by a handler, which the pass may have noticed as a KeyError
Evicted(i) ==
    \/ i < wd.i
    \/ i = wd.i /\ wd.raised
    \/ wd.timed_out[i] \notin DOMAIN last_command_time

\* the watchdog ends a pass
PassEnds == wd.pc = "evict" /\ wd'.pc = "sleep"

C22_Step ==
    /\ PassEnds =>
          /\ wd'.sets = IF wd'.motors_on THEN 1 ELSE 0
          /\ \A i \in DOMAIN wd.timed_out : Evicted(i)'
    /\ wd.pc = "decide" /\ wd'.pc # "decide" =>
          wd'.motors_on = (wd.timed_out # <<>> /\ MotorsOn)

\* C22: a watchdog pass that finds a timed-out entry while the motors run
\* sets the motors to zero exactly once, whatever the roles and the latch
\* are, and at its end no entry it found timed out is still tracked, whether
\* or not it stopped the motors.
C22_WatchdogPass == [][C22_Step]_vars

\* C21: whenever the motors run, they are eventually stopped unless a further
\* command or stop arrives.
C21_WatchdogStopsMotors ==
    \A c \in 0..MaxEvents : (MotorsOn /\ calls = c) ~> (~MotorsOn \/ calls # c)

\* ------------------------------------------------------- notification claim
\* the invocations of the control-change callback made by the call for actor u
InvocationsFor(u) == {i \in DOMAIN notified' : notified'[i][1] = u}

C31_Step ==
    lastCall' # lastCall =>
        /\ \A i \in DOMAIN notified' :
              /\ GetUserRole(sessions, notified'[i][1]) # notified'[i][2]
              /\ GetUserRole(sessions', notified'[i][1]) = notified'[i][2]
        /\ \A u \in Users :
              GetUserRole(sessions', u) # GetUserRole(sessions, u) =>
                  Cardinality(InvocationsFor(u)) = 1

\* C31: every invocation (actor, role) of the control-change callback reports
\* a change of that actor's role to that role, a removal being reported as
\* Disconnected, and every role change is reported by exactly one invocation;
\* a call that changes no role invokes nothing.
C31_NotifiedOnTransitions == [][C31_Step]_vars

\* --------------------------------------------------------- registry claims
C37_State ==
    /\ (active_controller = NoUser) <=> (sessions = <<>>)
    /\ \A i \in DOMAIN sessions : sessions[i].role \in {CONTROLLER, OBSERVER}

\* C37: active_controller is unset exactly when no session is registered, and
\* every registered session has role Controller or Observer.
C37_ControllerWhileConnected == C37_State

\* the Controller has left while Observers were connected, and one of them
\* has control
C37_Witness ==
    /\ lastCall.op = "disconnect"
    /\ Len(notified) = 2
    /\ active_controller # NoUser
    /\ sessions # <<>>

\* actor u has control, by the controller field or by its session's role
HasControl(u) == active_controller = u \/ GetUserRole(sessions, u) = CONTROLLER

C38_Step ==
    \A u \in Users :
        (HasControl(u) /\ ~HasControl(u)' /\ HasSession(sessions', u)) =>
            /\ lastCall'.op = "approve_takeover"
            /\ lastCall'.user = u
            /\ lastCall'.result = TRUE

DenyByController(t) ==
    /\ th[t].pc = "dt_call"
    /\ th[t].sid = active_controller
    /\ HasPendingTakeover(takeover_requester)

C34_Step ==
    \A t \in Threads :
        (DenyByController(t) /\ th'[t].pc # "dt_call") =>
            /\ ~th'[t].raised
            /\ ~HasPendingTakeover(takeover_requester')
            /\ active_controller' = active_controller

\* C34: a deny_takeover of the Controller while a takeover is pending is
\* handled without error, clears the pending takeover and leaves the
\* Controller in control.
C34_DenyTakeover == [][C34_Step]_vars

\* ------------------------------------------------ sequential history claim
C32_State ==
    \A t \in Threads :
        Returned(t) =>
            th[t].appended = IF th[t].op = "reset" /\ th[t].result # "True" THEN 0 ELSE 1

C32_Step ==
    \A t \in Threads :
        /\ Appends(t) => history' = Append(history, PendingEvent(t))
        /\ (th[t].pc = "h_read" /\ th'[t].pc = "done") =>
              \E k \in 0..Len(history) :
                  /\ th'[t].events = SubSeq(history, k + 1, Len(history))
                  /\ th[t].limit > 0 => Len(th'[t].events) = Min2(th[t].limit, Len(history))

\* C32: with one thread calling, every trigger and every successful reset
\* appends exactly one event with the caller's actor id at the end of the
\* history, and get_history returns the latest events in the order they were
\* appended, the oldest of them first.
C32_SequentialHistory == []C32_State /\ [][C32_Step]_vars

\* get_history returned two events of different calls, the older one first
C32_Witness ==
    /\ th["t1"].op = "get_history" /\ th["t1"].pc = "done"
    /\ Len(history) = 2
    /\ th["t1"].events = history
    /\ history[1].reason = DefaultReason /\ history[2].reason = ResetReason
    /\ history[1].triggered_by # history[2].triggered_by

\* ------------------------------------------------ state-change order claim
\* no trigger or reset call is in progress
Quiescent == \A t \in Threads : th[t].pc \in {"idle", "done"}

\* C35: once every trigger and reset call has returned, the is_stopped value
\* of the state-change callback delivered last equals the latch.
C35_LastDeliveryIsLatch ==
    (Quiescent /\ delivered # NoDelivery) => (delivered = <<stopped>>)

\* ------------------------------------------------------ waiter wake-up claim
\* a wait_for_reset call is in progress on thread t and the latch has been
\* reset by another thread since the call began
ResetWhileWaiting(t) ==
    /\ th[t].op = "wait_for_reset"
    /\ th[t].pc # "done"
    /\ th[t].resetSince

\* C36: a wait_for_reset(None) call during which a successful reset occurs
\* eventually returns True, also when the latch is triggered again at once.
C36_WaiterWakes ==
    ResetWhileWaiting("t1") ~> (th["t1"].pc = "done" /\ th["t1"].result = "True")

\* ------------------------------------------------- set_mode(Stopped) claim
\* the latest set_mode call to write the mode was set_mode(Stopped), and no
\* set_mode call is in progress: that call has returned
StoppedSet ==
    /\ mode_set
    /\ sm_mode = STOPPED
    /\ \A c \in ModeCallers : smc[c].pc = "idle"

\* the polling thread calls the safety-issue callback in this step
CallbackInvoked == mon'.invoked > mon.invoked

\* C39: once set_mode(Stopped) has returned, and while no later set_mode
\* changes the mode, the safety-issue callback is not invoked.
C39_Step == StoppedSet => ~CallbackInvoked
C39_SilentAfterStopped == [][C39_Step]_vars

\* ---------------------------------------------------- status snapshot claim
NoSetModeInProgress == \A c \in ModeCallers : smc[c].pc = "idle"

\* C40: whenever no set_mode call is in progress, the mode of the status
\* snapshot equals the monitor's mode.
C40_SnapshotModeIsMode == NoSetModeInProgress => (sm_status.mode = sm_mode)

\* ----------------------------------------------- monitor-driven stop claim
\* C33: with on_safety_issue wired to EmergencyStop.trigger, the monitor in
\* Autonomous mode and a fault reported at every poll, a clear latch becomes
\* stopped (at the start and after every reset) as long as a call remains in
\* the run's budget of calls, and the motor-stop callback is invoked once
\* per stop transition however many polls call trigger.
C33_OncePerTransition ==
    /\ motorStopCalls
         + Cardinality({t \in Threads : th[t].op = "trigger" /\ th[t].pc = "t_motor"
                                           /\ ~th[t].examined})
       = stopTransitions
    /\ (th[MonitorThread].op = "trigger" /\ AfterMotor(MonitorThread)) =>
          th[MonitorThread].motorInvoked = (IF th[MonitorThread].examined THEN 0 ELSE 1)
====
